---- MODULE Spec2Model ----
(***************************************************************************)
(* A model of codemux: the coordinator (src/src/codemux/server.py) with    *)
(* its session registry, liveness sweep and command dispatch, the agent    *)
(* (src/src/codemux/client.py) and the agent-side command completion       *)
(* detector (src/src/codemux/output_processor.py), the command router      *)
(* (src/src/codemux/command_router.py) and the message codec               *)
(* (src/src/codemux/protocol.py).                                          *)
(*                                                                         *)
(* Spec         : the connection handlers of the coordinator.              *)
(* SpecDispatch : agents that register, their command responses, and the   *)
(*                operator's dispatches.                                   *)
(* SpecSweep    : agents that register, their heartbeats, the clock and    *)
(*                the liveness sweep.                                      *)
(* FairSweep    : SpecSweep with the fairness asyncio's scheduler gives    *)
(*                the sweep task and the connection handlers.              *)
(* SpecDet      : one command execution of the completion detector.        *)
(* SpecDelta    : _extract_new_content applied to a baseline and a final   *)
(*                snapshot.                                                *)
(* SpecAgent    : the agent, the coordinator's side of its connection and  *)
(*                the operator who may call disconnect.                    *)
(* FairAgent    : SpecAgent with the fairness asyncio's scheduler gives    *)
(*                connect.                                                 *)
(* SpecRouter   : the command router, its session list being refreshed and *)
(*                the user's inputs routed.                                *)
(* SpecCodec    : a message written by to_json and read by from_json, or a *)
(*                frame of another writer read by from_json.               *)
(* SpecLive     : the coordinator with its liveness sweep and dispatches,  *)
(*                and agents with their heartbeat loops and executions.    *)
(* SpecCache    : one agent's session cache, checked by both of its duties *)
(*                while tmux changes, and the coordinator's handler of the *)
(*                agent's connection.                                      *)
(***************************************************************************)
EXTENDS Integers, Sequences, FiniteSets, TLC

(***************************************************************************)
(* Bounds of the model.                                                    *)
(***************************************************************************)
NumConns == 2
MaxTime == 120
ClockStep == 30
MaxDispatch == 2
MaxResponses == 1
MaxUpdates == 1
MaxHeartbeats == 1
MaxLines == 2
MaxJitter == 1
MaxAttempts == 2
MaxInbound == 2
MaxAgentFrames == 1
MaxPollErrors == 1
MaxDeltaLines == 11
MaxSessions == 3
MaxInput == 2
MaxKeys == 2
MaxRejected == 1
MaxReconnects == 1
MaxTmuxChanges == 2
MaxChecks == 2

(***************************************************************************)
(* Program constants.                                                      *)
(***************************************************************************)
heartbeat_interval == 30
heartbeat_timeout == 90

Conns == 1..NumConns
\* The websockets: those of the first connections, and those of agents that
\* connect again while the liveness sweep is closing connections.
AllConns == 1..(NumConns + MaxReconnects)
NoConn == 0
None == "None"
ClientIds == {"a1", "a2"}
SessionNames == {"host_a", "host_b"}
Descriptors == {"d1", "d2"}
\* The calls of execute_command the operator makes.
DispatchCalls ==
    { [session_name |-> "host_a", command |-> "pwd", timeout |-> 5],
      [session_name |-> "host_b", command |-> "ls", timeout |-> 10] }
ValidToken == "valid_token"
Tokens == {ValidToken, "invalid_token"}
AuthTokenSets == {{}, {ValidToken}}

VARIABLES
    now,                  \* datetime.now(), in seconds
    auth_tokens,          \* CodemuxServer.auth_tokens
    clients,              \* CodemuxServer.clients: an insertion-ordered dict
    websocket_to_client,  \* CodemuxServer.websocket_to_client
    all_sessions,         \* CodemuxServer.all_sessions
    client,               \* the ClientConnection object of each websocket
    ws,                   \* the state of each websocket
    pc,                   \* where each _handle_client coroutine stands
    client_id,            \* _handle_client's local variable client_id
    sent,                 \* the frames the coordinator sent on each websocket
    monitor,              \* the _monitor_heartbeats task
    results,              \* what execute_command returned, call by call
    next_request_id,      \* the uuid4 generator
    logged,               \* the COMMAND_RESPONSE frames the coordinator logged
    n_updates,            \* SESSION_UPDATE frames processed so far
    n_heartbeats,         \* HEARTBEAT frames processed so far
    det_pc,               \* where send_command_with_response stands
    det_timeout,          \* its timeout, in tenths of a second
    elapsed,              \* time.time() - start_time, in tenths of a second
    old_content,          \* the screen before the command was sent
    last_content,         \* _wait_for_response's last_content
    current_content,      \* the screen the last poll captured
    injected,             \* how often the command was sent to the pane
    det_result,           \* what send_command_with_response returned
    trace,                \* what each poll so far found
    running,              \* CodemuxClient.running
    auth_token,           \* CodemuxClient.auth_token
    agent_pc,             \* where CodemuxClient.connect stands
    attempt,              \* the connections connect has tried so far
    agent_ws,             \* the state of CodemuxClient.websocket
    tasks,                \* the three tasks connect created last
    executing,            \* the EXECUTE_COMMAND _handle_messages is executing
    conn_sent,            \* the frames the agent sent on this connection
    conn_recv,            \* the frames the agent took from this connection
    retry_at,             \* when the sleep before the next attempt ends
    poll_errors,          \* exceptions _check_sessions caught and logged
    sessions,             \* CommandRouter.sessions: the names, in dict order
    current_session,      \* CommandRouter.current_session
    user_input,           \* the input of the last route_command
    parsed,               \* what parse_input returned for it
    matched,              \* what find_session returned for it
    pane_call,            \* its call of send_command_with_response
    reply,                \* what route_command returned
    message,              \* a Message, as constructed
    wire,                 \* the JSON text on the wire
    decoded,              \* what Message.from_json made of the wire text
    n_rejected,           \* frames _process_client_message failed to decode
    next_beat,            \* when each agent's _heartbeat_loop wakes next
    busy,                 \* which agents are executing a command
    upstream,             \* frames of the agents the handlers have not taken yet
    tmux,                 \* the Claude sessions tmux has, as discovery finds them
    sessions_cache,       \* CodemuxClient.sessions_cache
    checks                \* the _check_sessions call of each duty of the agent

coord_vars == <<now, auth_tokens, clients, websocket_to_client, all_sessions,
                client, ws, pc, client_id, sent, monitor, results,
                next_request_id, logged, n_updates, n_heartbeats>>

det_vars == <<det_pc, det_timeout, elapsed, old_content, last_content,
              current_content, injected, det_result, trace>>

agent_vars == <<running, auth_token, agent_pc, attempt, agent_ws, tasks,
                executing, conn_sent, conn_recv, retry_at, poll_errors>>

router_vars == <<sessions, current_session, user_input, parsed, matched,
                 pane_call, reply>>

codec_vars == <<message, wire, decoded>>

live_vars == <<next_beat, busy, upstream>>

cache_vars == <<tmux, sessions_cache, checks>>

other_vars == <<router_vars, codec_vars, live_vars, n_rejected, cache_vars>>

vars == <<coord_vars, det_vars, agent_vars, other_vars>>

(***************************************************************************)
(* ClientConnection and the ordered dicts.                                 *)
(***************************************************************************)
SessionInfo(name, desc) == [name |-> name, desc |-> desc]

\* ClientConnection.__init__, before the handler fills it in.
NoClient == [client_id |-> None, sessions |-> <<>>, last_heartbeat |-> 0]

ClientConnection(cid, t) ==
    [client_id |-> cid, sessions |-> <<>>, last_heartbeat |-> t]

\* d[name] = info on a dict kept as the sequence of its values in insertion
\* order: an existing key keeps its place, a new key goes last.
DictSet(d, info) ==
    IF \E i \in DOMAIN d : d[i].name = info.name
    THEN [i \in DOMAIN d |-> IF d[i].name = info.name THEN info ELSE d[i]]
    ELSE Append(d, info)

DictDel(d, name) == SelectSeq(d, LAMBDA s : s.name # name)

DictHas(d, name) == \E i \in DOMAIN d : d[i].name = name

\* Lines 123-125 leaving the loop after the first session.
DictFromListFirstOnly(d, list) ==
    IF list = <<>> THEN d ELSE DictSet(d, Head(list))

RECURSIVE DictFromList(_, _)
DictFromList(d, list) ==
    IF list = <<>> THEN d
    ELSE DictFromList(DictSet(d, Head(list)), Tail(list))

\* self.clients.get(cid): the websocket of the ClientConnection stored under
\* cid, NoConn when there is none.
ClientsGet(cs, cid) ==
    IF \E i \in DOMAIN cs : cs[i].client_id = cid
    THEN cs[CHOOSE i \in DOMAIN cs : cs[i].client_id = cid].ws
    ELSE NoConn

\* self.clients[cid] = client
ClientsSet(cs, cid, w) ==
    IF \E i \in DOMAIN cs : cs[i].client_id = cid
    THEN [i \in DOMAIN cs |->
            IF cs[i].client_id = cid THEN [client_id |-> cid, ws |-> w] ELSE cs[i]]
    ELSE Append(cs, [client_id |-> cid, ws |-> w])

\* del self.clients[cid]
ClientsDel(cs, cid) == SelectSeq(cs, LAMBDA e : e.client_id # cid)

\* update_sessions: the registry flattened, client by client.
SessionDicts(c) ==
    [i \in DOMAIN c.sessions |->
        [name |-> c.sessions[i].name, desc |-> c.sessions[i].desc,
         client_id |-> c.client_id]]

\* Lines 251-263 keeping one entry per session name, the first client's.
RECURSIVE update_sessions_unique_names(_, _)
update_sessions_unique_names(cs, cl) ==
    IF cs = <<>> THEN <<>>
    ELSE LET head == SessionDicts(cl[Head(cs).ws])
             rest == update_sessions_unique_names(Tail(cs), cl)
         IN  head \o SelectSeq(rest,
                    LAMBDA d : ~\E i \in DOMAIN head : head[i].name = d.name)

RECURSIVE update_sessions(_, _)
update_sessions(cs, cl) ==
    IF cs = <<>> THEN <<>>
    ELSE SessionDicts(cl[Head(cs).ws]) \o update_sessions(Tail(cs), cl)

(***************************************************************************)
(* Frames.  A frame is its type and the fields of its data the coordinator *)
(* reads or writes.                                                        *)
(***************************************************************************)
AuthResult(success) == [type |-> "auth_result", success |-> success]

RegisterAck ==
    [type |-> "register_ack", success |-> TRUE,
     heartbeat_interval |-> heartbeat_interval]

ErrorMsg == [type |-> "error", error_type |-> "internal_error"]

create_execute_command(rid, name, command, timeout) ==
    [type |-> "execute_command", request_id |-> rid, session_name |-> name,
     command |-> command, timeout |-> timeout]

\* The session lists a REGISTER may carry.
RegisterSessions ==
    { <<>>,
      <<SessionInfo("host_a", "d1")>>,
      <<SessionInfo("host_a", "d2"), SessionInfo("host_b", "d2")>> }

\* What an agent may send first.  A REGISTER with client_id None lacks the
\* client_id key; one that is not well_formed has the key and lacks hostname
\* or platform, or carries a session SessionInfo.from_dict rejects.  A
\* "malformed" frame is one Message.from_json raises on.
RegisterMsgs ==
    [type : {"register"}, client_id : ClientIds \cup {None},
     well_formed : BOOLEAN, sessions : RegisterSessions]

AuthMsgs == [type : {"auth"}, auth_token : Tokens]

HandshakeMsgs ==
    RegisterMsgs \cup AuthMsgs \cup {[type |-> "heartbeat"], [type |-> "malformed"]}

Send(w, frame) == sent' = [sent EXCEPT ![w] = Append(@, frame)]

(***************************************************************************)
(* _handle_client                                                          *)
(***************************************************************************)
\* serve() starts _handle_client on a new websocket.  Websockets are taken
\* in order: which websocket object a connection gets makes no difference.
Accept(w) ==
    /\ pc[w] = "unborn"
    /\ \A v \in Conns : v < w => pc[v] # "unborn"
    /\ pc' = [pc EXCEPT ![w] = "recv_first"]
    /\ ws' = [ws EXCEPT ![w] = "open"]
    /\ UNCHANGED <<other_vars, agent_vars, det_vars, now, auth_tokens, clients, websocket_to_client, all_sessions,
                   client, client_id, sent, monitor, results, next_request_id,
                   logged, n_updates, n_heartbeats>>

\* serve() starts _handle_client on the websocket of an agent that connects
\* again, while _monitor_heartbeats awaits the close of a connection.
AcceptAgain(w) ==
    /\ monitor.pc = "closing"
    /\ pc[w] = "unborn"
    /\ \A v \in AllConns : v < w => pc[v] # "unborn"
    /\ pc' = [pc EXCEPT ![w] = "recv_first"]
    /\ ws' = [ws EXCEPT ![w] = "open"]
    /\ UNCHANGED <<other_vars, agent_vars, det_vars, now, auth_tokens, clients, websocket_to_client, all_sessions,
                   client, client_id, sent, monitor, results, next_request_id,
                   logged, n_updates, n_heartbeats>>

\* The finally block, with cid the value of the local client_id; the handler
\* is over, serve() closes the websocket, and nothing refers to the handler's
\* ClientConnection any more.
Finally(w, cid) ==
    /\ clients' = IF cid # None /\ ClientsGet(clients, cid) # NoConn
                  THEN ClientsDel(clients, cid)
                  ELSE clients
    /\ websocket_to_client' = [websocket_to_client EXCEPT ![w] = None]
    /\ all_sessions' = update_sessions(clients', client)
    /\ pc' = [pc EXCEPT ![w] = "done"]
    /\ client_id' = [client_id EXCEPT ![w] = None]
    /\ ws' = [ws EXCEPT ![w] = "closed"]
    /\ client' = [client EXCEPT ![w] = NoClient]

\* Lines 106-129: msg is the frame taken for the registration.
HandleRegistration(w, msg) ==
    IF msg.type # "register"
    THEN /\ Send(w, ErrorMsg)
         /\ Finally(w, None)
    ELSE IF msg.client_id = None
    THEN /\ Finally(w, None)
         /\ UNCHANGED sent
    ELSE IF ~msg.well_formed
    THEN /\ Finally(w, msg.client_id)
         /\ UNCHANGED sent
    ELSE /\ client' = [client EXCEPT ![w] =
                [client_id |-> msg.client_id,
                 sessions |-> DictFromList(<<>>, msg.sessions),
                 last_heartbeat |-> now]]
         /\ clients' = ClientsSet(clients, msg.client_id, w)
         /\ websocket_to_client' = [websocket_to_client EXCEPT ![w] = msg.client_id]
         /\ client_id' = [client_id EXCEPT ![w] = msg.client_id]
         /\ pc' = [pc EXCEPT ![w] = "send_ack"]
         /\ UNCHANGED <<all_sessions, ws, sent>>

\* _handle_auth accepting every token that is presented.
handle_auth_any_token(msg) == msg.auth_token # None

\* _handle_auth
handle_auth(msg) == msg.auth_token \in auth_tokens

\* Lines 91-129: the first frame arrives.
RecvFirst(w, msg) ==
    /\ pc[w] = "recv_first"
    /\ ws[w] = "open"
    /\ IF msg.type = "malformed"
       THEN /\ Finally(w, None)
            /\ UNCHANGED sent
       ELSE IF auth_tokens # {} /\ msg.type = "auth"
       THEN /\ Send(w, AuthResult(handle_auth(msg)))
            /\ IF handle_auth(msg)
               THEN /\ pc' = [pc EXCEPT ![w] = "recv_reg"]
                    /\ UNCHANGED <<clients, websocket_to_client, all_sessions,
                                   client, client_id, ws>>
               ELSE Finally(w, None)
       ELSE HandleRegistration(w, msg)
    /\ UNCHANGED <<other_vars, agent_vars, det_vars, now, auth_tokens, monitor, results, next_request_id, logged,
                   n_updates, n_heartbeats>>

\* Lines 101-129: the frame after a successful AUTH arrives.
RecvRegistration(w, msg) ==
    /\ pc[w] = "recv_reg"
    /\ ws[w] = "open"
    /\ IF msg.type = "malformed"
       THEN /\ Finally(w, None)
            /\ UNCHANGED sent
       ELSE HandleRegistration(w, msg)
    /\ UNCHANGED <<other_vars, agent_vars, det_vars, now, auth_tokens, monitor, results, next_request_id, logged,
                   n_updates, n_heartbeats>>

\* asyncio.wait_for(websocket.recv(), timeout=10.0) raises TimeoutError.
RecvTimeout(w) ==
    /\ pc[w] \in {"recv_first", "recv_reg"}
    /\ ws[w] = "open"
    /\ Finally(w, None)
    /\ UNCHANGED <<other_vars, agent_vars, det_vars, now, auth_tokens, sent, monitor, results, next_request_id,
                   logged, n_updates, n_heartbeats>>

\* Lines 131-147: the acknowledgment is sent and the session list updated.
SendAck(w) ==
    /\ pc[w] = "send_ack"
    /\ ws[w] = "open"
    /\ Send(w, RegisterAck)
    /\ all_sessions' = update_sessions(clients, client)
    /\ pc' = [pc EXCEPT ![w] = "loop"]
    /\ UNCHANGED <<other_vars, agent_vars, det_vars, now, auth_tokens, clients, websocket_to_client, client, ws,
                   client_id, monitor, results, next_request_id, logged,
                   n_updates, n_heartbeats>>

\* An await of the handler raises ConnectionClosed: the websocket is closed,
\* or closing when the handler is about to send on it.
HandlerClosed(w) ==
    /\ pc[w] \in {"recv_first", "recv_reg", "send_ack", "loop"}
    /\ \/ ws[w] = "closed"
       \/ ws[w] = "closing" /\ pc[w] = "send_ack"
    /\ Finally(w, client_id[w])
    /\ UNCHANGED <<other_vars, agent_vars, det_vars, now, auth_tokens, sent, monitor, results, next_request_id,
                   logged, n_updates, n_heartbeats>>

\* The agent closes the connection, or the network drops it.
PeerClose(w) ==
    /\ ws[w] \in {"open", "closing"}
    /\ ws' = [ws EXCEPT ![w] = "closed"]
    /\ UNCHANGED <<other_vars, agent_vars, det_vars, now, auth_tokens, clients, websocket_to_client, all_sessions,
                   client, pc, client_id, sent, monitor, results,
                   next_request_id, logged, n_updates, n_heartbeats>>

(***************************************************************************)
(* _process_client_message                                                 *)
(***************************************************************************)
SessionUpdateMsgs ==
    [type : {"session_update"},
     action : {"added", "removed", "changed", "renamed"},
     session : [name : SessionNames, desc : Descriptors]]

\* Every agent answers with the same output text; request_id 0 is an id the
\* coordinator never issued.
CommandResponseMsgs ==
    [type : {"command_response"}, request_id : 0..MaxDispatch,
     success : {TRUE}, output : {"/tmp"}]

\* _handle_session_update changing only a session the client already has.
handle_session_update_known_only(c, msg) ==
    CASE msg.action = "added" ->
            [c EXCEPT !.sessions = DictSet(@, msg.session)]
      [] msg.action = "removed" ->
            [c EXCEPT !.sessions = DictDel(@, msg.session.name)]
      [] msg.action = "changed" ->
            IF DictHas(c.sessions, msg.session.name)
            THEN [c EXCEPT !.sessions = DictSet(@, msg.session)]
            ELSE c
      [] OTHER -> c

\* _handle_session_update on the ClientConnection c: the sessions it leaves.
\* SessionAction("renamed") raises ValueError before anything is changed.
handle_session_update(c, msg) ==
    CASE msg.action = "added" ->
            [c EXCEPT !.sessions = DictSet(@, msg.session)]
      [] msg.action = "removed" ->
            [c EXCEPT !.sessions = DictDel(@, msg.session.name)]
      [] msg.action = "changed" ->
            [c EXCEPT !.sessions = DictSet(@, msg.session)]
      [] OTHER -> c

\* Lines 197-198
Heartbeat(w) ==
    /\ pc[w] = "loop"
    /\ ws[w] = "open"
    /\ n_heartbeats < MaxHeartbeats
    /\ n_heartbeats' = n_heartbeats + 1
    /\ client' = [client EXCEPT ![w].last_heartbeat = now]
    /\ UNCHANGED <<other_vars, agent_vars, det_vars, now, auth_tokens, clients, websocket_to_client, all_sessions,
                   ws, pc, client_id, sent, monitor, results, next_request_id,
                   logged, n_updates>>

\* Lines 200-201 and 215-237.  The ValueError of an unknown action is caught
\* by _process_client_message, and _update_sessions is not reached.
SessionUpdate(w, msg) ==
    /\ pc[w] = "loop"
    /\ ws[w] = "open"
    /\ n_updates < MaxUpdates
    /\ n_updates' = n_updates + 1
    /\ client' = [client EXCEPT ![w] = handle_session_update(@, msg)]
    /\ all_sessions' =
          IF msg.action \in {"added", "removed", "changed"}
          THEN update_sessions(clients, client')
          ELSE all_sessions
    /\ UNCHANGED <<other_vars, agent_vars, det_vars, now, auth_tokens, clients, websocket_to_client, ws, pc,
                   client_id, sent, monitor, results, next_request_id, logged,
                   n_heartbeats>>

\* _handle_command_response delivering the response as an outcome of the
\* request it names.
handle_command_response_delivers(w, msg) ==
    /\ logged' = Append(logged, [ws |-> w, request_id |-> msg.request_id,
                                 success |-> msg.success, output |-> msg.output])
    /\ results' = Append(results,
            [call |-> [session_name |-> "", command |-> "", timeout |-> 0],
             result |-> [success |-> msg.success, request_id |-> msg.request_id,
                         output |-> msg.output]])

\* _handle_command_response: the response is logged, and that is all.
handle_command_response(w, msg) ==
    /\ logged' = Append(logged, [ws |-> w, request_id |-> msg.request_id,
                                 success |-> msg.success, output |-> msg.output])
    /\ UNCHANGED results

\* Lines 203-204
CommandResponse(w, msg) ==
    /\ pc[w] = "loop"
    /\ ws[w] = "open"
    /\ Len(logged) < MaxResponses
    /\ msg.request_id < next_request_id
    /\ handle_command_response(w, msg)
    /\ UNCHANGED <<other_vars, agent_vars, det_vars, now, auth_tokens, clients, websocket_to_client, all_sessions,
                   client, ws, pc, client_id, sent, monitor, next_request_id,
                   n_updates, n_heartbeats>>

\* Lines 206-213: an ERROR frame is logged; a frame of another type matches
\* no branch; a frame Message.from_json raises on is logged and dropped.
OtherFrame(w) ==
    /\ pc[w] = "loop"
    /\ ws[w] = "open"
    /\ UNCHANGED vars

(***************************************************************************)
(* _monitor_heartbeats                                                     *)
(***************************************************************************)
\* Line 279 with >= for >.
IsDeadInclusive(c, t) == t - c.last_heartbeat >= heartbeat_timeout

\* Line 279
IsDead(c, t) == t - c.last_heartbeat > heartbeat_timeout

\* Lines 277-281 leaving the loop at the first dead client.
dead_clients_first_only(cs, cl, t) ==
    LET dead == SelectSeq(cs, LAMBDA e : IsDead(cl[e.ws], t))
    IN  IF dead = <<>> THEN <<>> ELSE <<dead[1].client_id>>

\* Lines 277-281: the ids of the dead clients, in registry order.
dead_clients(cs, cl, t) ==
    LET dead == SelectSeq(cs, LAMBDA e : IsDead(cl[e.ws], t))
    IN  [i \in DOMAIN dead |-> dead[i].client_id]

\* Lines 284-286: the ids left to close, from the first one that
\* self.clients.get still finds.
RECURSIVE SkipMissing(_, _)
SkipMissing(dead, cs) ==
    IF dead = <<>> THEN <<>>
    ELSE IF ClientsGet(cs, Head(dead)) = NoConn THEN SkipMissing(Tail(dead), cs)
    ELSE dead

\* Lines 284-287 from the list dead on, with the websockets as ws0: the task
\* calls close() on the next client found and awaits it, or has no client
\* left and sleeps again.
CloseLoop(dead, ws0, tick) ==
    LET d == SkipMissing(dead, clients)
    IN  IF d = <<>>
        THEN /\ monitor' = [pc |-> "sleep", wake |-> now + heartbeat_interval,
                            dead |-> <<>>, closing |-> NoConn, tick_at |-> tick]
             /\ ws' = ws0
        ELSE LET w == ClientsGet(clients, Head(d))
             IN  /\ monitor' = [pc |-> "closing", wake |-> monitor.wake,
                                dead |-> Tail(d), closing |-> w, tick_at |-> tick]
                 /\ ws' = [ws0 EXCEPT ![w] = IF @ = "open" THEN "closing" ELSE @]

\* Lines 271-287: the sleep is over; the dead clients are listed and the
\* first one is closed.
SweepTick ==
    /\ monitor.pc = "sleep"
    /\ now >= monitor.wake
    /\ CloseLoop(dead_clients(clients, client, now), ws, now)
    /\ UNCHANGED <<other_vars, agent_vars, det_vars, now, auth_tokens, clients, websocket_to_client, all_sessions,
                   client, pc, client_id, sent, results, next_request_id, logged,
                   n_updates, n_heartbeats>>

\* Line 287: close() returns, the connection is closed, and the loop goes on.
SweepCloseDone ==
    /\ monitor.pc = "closing"
    /\ CloseLoop(monitor.dead, [ws EXCEPT ![monitor.closing] = "closed"],
                 monitor.tick_at)
    /\ UNCHANGED <<other_vars, agent_vars, det_vars, now, auth_tokens, clients, websocket_to_client, all_sessions,
                   client, pc, client_id, sent, results, next_request_id, logged,
                   n_updates, n_heartbeats>>

(***************************************************************************)
(* execute_command                                                         *)
(***************************************************************************)
\* Lines 303-307 without the break: the last client that has the session.
FindTargetLast(cs, cl, name) ==
    LET owners == {i \in DOMAIN cs : DictHas(cl[cs[i].ws].sessions, name)}
    IN  IF owners = {} THEN NoConn
        ELSE cs[CHOOSE i \in owners : \A j \in owners : i >= j].ws

\* Lines 303-309 testing the loop variable client for target_client: with no
\* owner, the last client of the registry is taken.
FindTargetLoopVariable(cs, cl, name) ==
    LET owners == {i \in DOMAIN cs : DictHas(cl[cs[i].ws].sessions, name)}
    IN  IF owners = {} THEN (IF cs = <<>> THEN NoConn ELSE cs[Len(cs)].ws)
        ELSE cs[CHOOSE i \in owners : \A j \in owners : i <= j].ws

\* Lines 303-307: the websocket of the first client, in registry order, that
\* has the session.
FindTarget(cs, cl, name) ==
    LET owners == {i \in DOMAIN cs : DictHas(cl[cs[i].ws].sessions, name)}
    IN  IF owners = {} THEN NoConn
        ELSE cs[CHOOSE i \in owners : \A j \in owners : i <= j].ws

\* Line 313: uuid.uuid4(), an id never given before.
uuid4 == next_request_id

\* Lines 289-332.  Each entry of results is one call with what it returned.
execute_command(name, command, timeout) ==
    LET target == FindTarget(clients, client, name)
        call == [session_name |-> name, command |-> command, timeout |-> timeout]
    IN  IF target = NoConn
        THEN /\ results' = Append(results,
                    [call |-> call,
                     result |-> [success |-> FALSE, error |-> "not found"]])
             /\ UNCHANGED <<sent, next_request_id>>
        ELSE /\ next_request_id' = next_request_id + 1
             /\ IF ws[target] = "open"
                THEN /\ Send(target, create_execute_command(uuid4, name, command, timeout))
                     /\ results' = Append(results,
                            [call |-> call,
                             result |-> [success |-> TRUE, request_id |-> uuid4,
                                         status |-> "sent"]])
                ELSE /\ results' = Append(results,
                            [call |-> call,
                             result |-> [success |-> FALSE, error |-> "ConnectionClosed"]])
                     /\ UNCHANGED sent

Dispatch(name, command, timeout) ==
    /\ Len(results) < MaxDispatch
    /\ execute_command(name, command, timeout)
    /\ UNCHANGED <<other_vars, agent_vars, det_vars, now, auth_tokens, clients, websocket_to_client, all_sessions,
                   client, ws, pc, client_id, monitor, logged, n_updates,
                   n_heartbeats>>

(***************************************************************************)
(* Time                                                                    *)
(***************************************************************************)
AdvanceTime ==
    /\ now + ClockStep <= MaxTime
    /\ now' = now + ClockStep
    /\ UNCHANGED <<other_vars, agent_vars, det_vars, auth_tokens, clients, websocket_to_client, all_sessions,
                   client, ws, pc, client_id, sent, monitor, results,
                   next_request_id, logged, n_updates, n_heartbeats>>

(***************************************************************************)
(* Screens.  A screen content is the sequence of its lines, as             *)
(* str.split("\n") gives them, and a line is a sequence of pieces of text: *)
(* a space, a prompt character, or a word.  The empty string is the one    *)
(* empty line.                                                             *)
(***************************************************************************)
EmptyContent == << <<>> >>

\* str.lower() on a piece of text.
Lower(piece) ==
    CASE piece = "Thinking..." -> "thinking..."
      [] piece = "Running" -> "running"
      [] piece = "A" -> "a"
      [] piece = "Status" -> "status"
      [] piece = "Switch" -> "switch"
      [] OTHER -> piece

IsSpace(piece) == piece = " "

RECURSIVE LStripLine(_)
LStripLine(line) ==
    IF line # <<>> /\ IsSpace(Head(line)) THEN LStripLine(Tail(line)) ELSE line

RECURSIVE RStripLine(_)
RStripLine(line) ==
    IF line # <<>> /\ IsSpace(line[Len(line)])
    THEN RStripLine(SubSeq(line, 1, Len(line) - 1))
    ELSE line

\* str.strip() on one line.
StripLine(line) == RStripLine(LStripLine(line))

IsBlankLine(line) == \A i \in DOMAIN line : IsSpace(line[i])

RECURSIVE LStrip(_)
LStrip(content) ==
    IF Len(content) > 1 /\ IsBlankLine(Head(content)) THEN LStrip(Tail(content))
    ELSE <<LStripLine(Head(content))>> \o Tail(content)

RECURSIVE RStrip(_)
RStrip(content) ==
    IF Len(content) > 1 /\ IsBlankLine(content[Len(content)])
    THEN RStrip(SubSeq(content, 1, Len(content) - 1))
    ELSE SubSeq(content, 1, Len(content) - 1)
            \o <<RStripLine(content[Len(content)])>>

\* str.strip() on a content: white space goes from both ends, newlines
\* included.
Strip(content) == RStrip(LStrip(content))

(***************************************************************************)
(* OutputProcessor                                                         *)
(***************************************************************************)
check_interval == 5
tail_lines == 10

\* Lines 124-136
working_indicators ==
    {"thinking...", "processing...", "working on", "generating", "analyzing",
     "creating", "writing", "reading", "searching", "executing", "running"}

\* Lines 138-141: an indicator occurs in the lower-cased content.
HasIndicator(content) ==
    \E i \in DOMAIN content : \E j \in DOMAIN content[i] :
        Lower(content[i][j]) \in working_indicators

\* Lines 144-153: the last line of the stripped content, stripped, ends
\* with a prompt character.
EndsWithPrompt(content) ==
    LET lines == Strip(content)
        last_line == StripLine(lines[Len(lines)])
    IN  /\ last_line # <<>>
        /\ last_line[Len(last_line)] \in {">", "$", ":"}

\* _is_claude_working matching the indicators without lower-casing the
\* content.
is_claude_working_case_sensitive(content) ==
    \E i \in DOMAIN content : \E j \in DOMAIN content[i] :
        content[i][j] \in working_indicators

\* _is_claude_working taking a trailing prompt for work in progress.
is_claude_working_prompt_bias(content) ==
    IF HasIndicator(content) THEN TRUE
    ELSE IF EndsWithPrompt(content) THEN TRUE
    ELSE FALSE

\* _is_claude_working
is_claude_working(content) ==
    IF HasIndicator(content) THEN TRUE
    ELSE IF EndsWithPrompt(content) THEN FALSE
    ELSE FALSE

\* _extract_new_content looking at the last 10 lines before it looks at
\* the lines past the baseline.
extract_new_content_tail_first(old, new) ==
    IF Len(new) >= tail_lines
    THEN Strip(SubSeq(new, Len(new) - tail_lines + 1, Len(new)))
    ELSE IF Len(new) > Len(old)
    THEN Strip(SubSeq(new, Len(old) + 1, Len(new)))
    ELSE Strip(new)

\* _extract_new_content
extract_new_content(old, new) ==
    IF Len(new) > Len(old)
    THEN Strip(SubSeq(new, Len(old) + 1, Len(new)))
    ELSE IF Len(new) >= tail_lines
    THEN Strip(SubSeq(new, Len(new) - tail_lines + 1, Len(new)))
    ELSE Strip(new)

\* The lines a pane shows in the detector's runs.
DetLines ==
    { <<>>, <<"ok">>, <<"Thinking...">>, <<"$", " ">>, <<" ", "ok", ":">> }

\* What capture_screen may return: a content of up to MaxLines lines, or
\* the empty string when the capture failed.
Captures == UNION {[1..n -> DetLines] : n \in 1..MaxLines}

\* The screens a pane shows before the command is sent, the failed capture
\* among them.
Baselines ==
    [1..1 -> DetLines] \cup { << <<"ok">>, <<"$", " ">> >> }

\* The timeouts of the detector's runs, in tenths of a second.
DetTimeouts == {0, 7, 15}

NoResult == [returned |-> FALSE]

\* No command is being executed.
DetIdle ==
    /\ det_pc = "idle"
    /\ det_timeout = 0
    /\ elapsed = 0
    /\ old_content = EmptyContent
    /\ last_content = EmptyContent
    /\ current_content = EmptyContent
    /\ injected = 0
    /\ det_result = NoResult
    /\ trace = <<>>

\* send_command_with_response sending the command before it looks at the
\* baseline.
DetStart_sends_first(t, baseline, sent_ok, d) ==
    /\ det_pc = "idle"
    /\ det_timeout' = t
    /\ old_content' = baseline
    /\ current_content' = EmptyContent
    /\ trace' = <<>>
    /\ IF baseline = EmptyContent
       THEN /\ det_result' = [returned |-> TRUE, success |-> FALSE,
                              error |-> "Failed to capture screen",
                              response_time |-> 0]
            /\ det_pc' = "done"
            /\ elapsed' = 0
            /\ injected' = 1
            /\ last_content' = EmptyContent
       ELSE IF ~sent_ok
       THEN /\ det_result' = [returned |-> TRUE, success |-> FALSE,
                              error |-> "Failed to send command",
                              response_time |-> d]
            /\ det_pc' = "done"
            /\ elapsed' = d
            /\ injected' = 0
            /\ last_content' = EmptyContent
       ELSE /\ det_result' = NoResult
            /\ det_pc' = "wait"
            /\ elapsed' = d
            /\ injected' = 1
            /\ last_content' = baseline
    /\ UNCHANGED <<coord_vars, agent_vars, other_vars>>

\* Lines 34-57 of send_command_with_response: the baseline is captured and
\* the command sent; taking d tenths of a second.
DetStart(t, baseline, sent_ok, d) ==
    /\ det_pc = "idle"
    /\ det_timeout' = t
    /\ old_content' = baseline
    /\ current_content' = EmptyContent
    /\ trace' = <<>>
    /\ IF baseline = EmptyContent
       THEN /\ det_result' = [returned |-> TRUE, success |-> FALSE,
                              error |-> "Failed to capture screen",
                              response_time |-> 0]
            /\ det_pc' = "done"
            /\ elapsed' = 0
            /\ injected' = 0
            /\ last_content' = EmptyContent
       ELSE IF ~sent_ok
       THEN /\ det_result' = [returned |-> TRUE, success |-> FALSE,
                              error |-> "Failed to send command",
                              response_time |-> d]
            /\ det_pc' = "done"
            /\ elapsed' = d
            /\ injected' = 0
            /\ last_content' = EmptyContent
       ELSE /\ det_result' = NoResult
            /\ det_pc' = "wait"
            /\ elapsed' = d
            /\ injected' = 1
            /\ last_content' = baseline
    /\ UNCHANGED <<coord_vars, agent_vars, other_vars>>

\* Lines 78-104: one turn of the loop of _wait_for_response.  The sleep
\* takes d tenths of a second and the capture returns content.
Poll(d, content) ==
    /\ det_pc = "wait"
    /\ elapsed < det_timeout
    /\ elapsed' = elapsed + d
    /\ current_content' = content
    /\ IF content = EmptyContent
       THEN /\ trace' = Append(trace, "empty")
            /\ UNCHANGED <<det_pc, last_content, det_result>>
       ELSE IF content = last_content
       THEN /\ trace' = Append(trace, "same")
            /\ UNCHANGED <<det_pc, last_content, det_result>>
       ELSE IF is_claude_working(content)
       THEN /\ trace' = Append(trace, "working")
            /\ last_content' = content
            /\ UNCHANGED <<det_pc, det_result>>
       ELSE /\ trace' = Append(trace, "idle")
            /\ det_result' = [returned |-> TRUE, success |-> TRUE,
                              output |-> extract_new_content(old_content, content),
                              full_screen |-> content,
                              response_time |-> elapsed']
            /\ det_pc' = "done"
            /\ UNCHANGED last_content
    /\ UNCHANGED <<det_timeout, old_content, injected>>
    /\ UNCHANGED <<coord_vars, agent_vars, other_vars>>

\* Lines 106-112: the loop is left on its condition.
ResponseTimeout ==
    /\ det_pc = "wait"
    /\ ~(elapsed < det_timeout)
    /\ det_result' = [returned |-> TRUE, success |-> FALSE,
                      error |-> "Response timeout",
                      response_time |-> det_timeout]
    /\ det_pc' = "done"
    /\ UNCHANGED <<det_timeout, elapsed, old_content, last_content, current_content,
                   injected, trace>>
    /\ UNCHANGED <<coord_vars, agent_vars, other_vars>>

(***************************************************************************)
(* CodemuxClient, the agent.  Its websocket is "open", "closing" (the      *)
(* closing handshake has begun: closed is still False and send raises      *)
(* ConnectionClosed) or "closed".                                          *)
(***************************************************************************)
reconnect_delay == 5

TaskNames == {"handle_messages", "monitor_sessions", "heartbeat_loop"}

NoTasks == [t \in TaskNames |-> "none"]

\* Lines 76-80: the three tasks, created.
CreatedTasks == [t \in TaskNames |-> "running"]

\* The tokens an agent may be configured with.
AgentTokens == {None, ValidToken}

\* Lines 112-115
AuthFrame == [type |-> "auth", auth_token |-> auth_token]

\* Lines 134-139
RegisterFrame == [type |-> "register"]

HeartbeatFrame == [type |-> "heartbeat"]

SessionUpdateFrame == [type |-> "session_update"]

\* The frames a coordinator may send to the agent.
AgentInbound ==
    {[type |-> "auth_result", success |-> b] : b \in BOOLEAN}
        \cup {[type |-> "register_ack"], [type |-> "control"]}
        \cup {[type |-> "execute_command", request_id |-> r,
               session_name |-> n] : r \in 1..MaxDispatch, n \in {"host_a"}}

\* _handle_messages is executing no command.
NoCommand == [type |-> "none"]

\* How send_command_with_response may end: with a success, with one of its
\* failures, or with an exception.
ExecOutcomes == {"success", "timeout", "capture_failed", "exception"}

\* The agent as constructed, before connect is called.
AgentNew ==
    /\ running = FALSE
    /\ auth_token = None
    /\ agent_pc = "new"
    /\ attempt = 0
    /\ agent_ws = "none"
    /\ tasks = NoTasks
    /\ executing = NoCommand
    /\ conn_sent = <<>>
    /\ conn_recv = <<>>
    /\ retry_at = 0
    /\ poll_errors = 0

\* _send_message on the websocket as it is: the frame is sent, send raises
\* ConnectionClosed, or the frame is skipped with a warning.
SendOutcome ==
    CASE agent_ws = "open" -> "sent"
      [] agent_ws = "closing" -> "raised"
      [] OTHER -> "skipped"

\* ProtocolHelper.create_command_response as _handle_execute_command calls
\* it, on an exception taking success for the result's own.
create_command_response_keeps_success(msg, outcome) ==
    [type |-> "command_response", request_id |-> msg.request_id,
     session_name |-> msg.session_name,
     success |-> outcome \in {"success", "exception"},
     error |-> IF outcome = "success" THEN None ELSE outcome]

\* Lines 191-207: the COMMAND_RESPONSE of an execution.
create_command_response(msg, outcome) ==
    [type |-> "command_response", request_id |-> msg.request_id,
     session_name |-> msg.session_name, success |-> (outcome = "success"),
     error |-> IF outcome = "success" THEN None ELSE outcome]

\* Lines 95-102 with connect returning after the first drop.
Drop_gives_up ==
    /\ agent_pc' = "stopped"
    /\ retry_at' = retry_at
    /\ executing' = NoCommand

\* Lines 95-102: the connection attempt is over; connect sleeps before the
\* next one if the agent is still running.
Drop ==
    /\ agent_pc' = IF running THEN "sleeping" ELSE "stopped"
    /\ retry_at' = IF running THEN now + reconnect_delay ELSE retry_at
    /\ executing' = NoCommand

\* CodemuxClient(server_url, auth_token=token) and the call of connect.
AgentStart(token) ==
    /\ agent_pc = "new"
    /\ auth_token' = token
    /\ running' = TRUE
    /\ agent_pc' = "connecting"
    /\ UNCHANGED <<attempt, agent_ws, tasks, executing, conn_sent, conn_recv,
                   retry_at, poll_errors>>
    /\ UNCHANGED <<coord_vars, det_vars, other_vars>>

\* Lines 62-80: websockets.connect, then AUTH if a token is configured,
\* else REGISTER and the three tasks.
Connect(ok) ==
    /\ agent_pc = "connecting"
    /\ attempt < MaxAttempts
    /\ attempt' = attempt + 1
    /\ conn_recv' = <<>>
    /\ IF ~ok
       THEN /\ Drop
            /\ conn_sent' = <<>>
            /\ UNCHANGED <<agent_ws, tasks>>
       ELSE /\ agent_ws' = "open"
            /\ UNCHANGED <<retry_at, executing>>
            /\ IF auth_token # None
               THEN /\ conn_sent' = <<AuthFrame>>
                    /\ agent_pc' = "auth_recv"
                    /\ UNCHANGED tasks
               ELSE /\ conn_sent' = <<RegisterFrame>>
                    /\ agent_pc' = "active"
                    /\ tasks' = CreatedTasks
    /\ UNCHANGED <<running, auth_token, poll_errors>>
    /\ UNCHANGED <<coord_vars, det_vars, other_vars>>

\* Line 124 without the test of success.
auth_accepted_any_result(msg) == msg.type = "auth_result"

\* Line 124: the reply does not make _authenticate raise.
auth_accepted(msg) == msg.type = "auth_result" /\ msg.success

\* Lines 121-127 and 73-80: the reply to AUTH arrives.
AuthReply(msg) ==
    /\ agent_pc = "auth_recv"
    /\ agent_ws = "open"
    /\ conn_recv' = Append(conn_recv, msg)
    /\ IF auth_accepted(msg)
       THEN /\ conn_sent' = Append(conn_sent, RegisterFrame)
            /\ agent_pc' = "active"
            /\ tasks' = CreatedTasks
            /\ UNCHANGED <<agent_ws, retry_at, executing>>
       ELSE /\ Drop
            /\ agent_ws' = "closed"
            /\ UNCHANGED <<conn_sent, tasks>>
    /\ UNCHANGED <<running, auth_token, attempt, poll_errors>>
    /\ UNCHANGED <<coord_vars, det_vars, other_vars>>

\* Line 121 raising ConnectionClosed.
AuthClosed ==
    /\ agent_pc = "auth_recv"
    /\ agent_ws # "open"
    /\ Drop
    /\ agent_ws' = "closed"
    /\ UNCHANGED <<running, auth_token, attempt, tasks, conn_sent, conn_recv,
                   poll_errors>>
    /\ UNCHANGED <<coord_vars, det_vars, other_vars>>

\* The coordinator closes the connection.
ServerClose ==
    /\ agent_ws = "open"
    /\ agent_ws' = "closing"
    /\ UNCHANGED <<running, auth_token, agent_pc, attempt, tasks, executing,
                   conn_sent, conn_recv, retry_at, poll_errors>>
    /\ UNCHANGED <<coord_vars, det_vars, other_vars>>

\* The closing handshake is over.
ServerCloseDone ==
    /\ agent_ws = "closing"
    /\ agent_ws' = "closed"
    /\ UNCHANGED <<running, auth_token, agent_pc, attempt, tasks, executing,
                   conn_sent, conn_recv, retry_at, poll_errors>>
    /\ UNCHANGED <<coord_vars, det_vars, other_vars>>

\* Lines 230-252: _check_sessions.  change: the sessions differ from the
\* cache; error: discover_claude_sessions raises.  The frames sent and the
\* exceptions caught.
CheckSessions(change, error) ==
    IF error
    THEN /\ poll_errors' = poll_errors + 1
         /\ UNCHANGED conn_sent
    ELSE IF change /\ SendOutcome = "sent"
    THEN /\ conn_sent' = Append(conn_sent, SessionUpdateFrame)
         /\ UNCHANGED poll_errors
    ELSE IF change /\ SendOutcome = "raised"
    THEN /\ poll_errors' = poll_errors + 1
         /\ UNCHANGED conn_sent
    ELSE UNCHANGED <<conn_sent, poll_errors>>

\* The frames of a type sent on this connection.
SentOfType(type) == SelectSeq(conn_sent, LAMBDA f : f.type = type)

\* _check_sessions within the bounds of the model.
CheckSessionsBounded(change, error) ==
    /\ (error \/ (change /\ SendOutcome = "raised")) => poll_errors < MaxPollErrors
    /\ (change /\ SendOutcome = "sent") =>
            Len(SentOfType("session_update")) < MaxAgentFrames

\* Lines 147-148 and 153-174: _handle_messages takes a frame and
\* _process_message dispatches it.
ProcessMessage(msg, change) ==
    /\ tasks["handle_messages"] = "running"
    /\ executing = NoCommand
    /\ agent_ws = "open"
    /\ Len(conn_recv) < MaxInbound
    /\ conn_recv' = Append(conn_recv, msg)
    /\ IF msg.type = "execute_command"
       THEN /\ executing' = msg
            /\ UNCHANGED <<conn_sent, poll_errors>>
       ELSE IF msg.type = "control"
       THEN /\ CheckSessionsBounded(change, FALSE)
            /\ CheckSessions(change, FALSE)
            /\ UNCHANGED executing
       ELSE UNCHANGED <<executing, conn_sent, poll_errors>>
    /\ UNCHANGED <<running, auth_token, agent_pc, attempt, agent_ws, tasks, retry_at>>
    /\ UNCHANGED <<coord_vars, det_vars, other_vars>>

\* Lines 184-209 and 171-174: send_command_with_response is over and the
\* response is sent.  When send raises, _process_message tries to send an
\* ERROR, send raises again, and the exception ends _handle_messages.
ExecuteDone(outcome) ==
    /\ tasks["handle_messages"] = "running"
    /\ executing # NoCommand
    /\ executing' = NoCommand
    /\ CASE SendOutcome = "sent" ->
              /\ conn_sent' = Append(conn_sent,
                                     create_command_response(executing, outcome))
              /\ UNCHANGED tasks
         [] SendOutcome = "raised" ->
              /\ tasks' = [tasks EXCEPT !["handle_messages"] = "failed"]
              /\ UNCHANGED conn_sent
         [] OTHER -> UNCHANGED <<conn_sent, tasks>>
    /\ UNCHANGED <<running, auth_token, agent_pc, attempt, agent_ws, conn_recv,
                   retry_at, poll_errors>>
    /\ UNCHANGED <<coord_vars, det_vars, other_vars>>

\* Lines 147-151: the iteration over the closed websocket ends.
HandleMessagesEnds ==
    /\ tasks["handle_messages"] = "running"
    /\ executing = NoCommand
    /\ agent_ws = "closed"
    /\ tasks' = [tasks EXCEPT !["handle_messages"] = "failed"]
    /\ UNCHANGED <<running, auth_token, agent_pc, attempt, agent_ws, executing,
                   conn_sent, conn_recv, retry_at, poll_errors>>
    /\ UNCHANGED <<coord_vars, det_vars, other_vars>>

\* Lines 264-273: one turn of _heartbeat_loop after its sleep.
HeartbeatLoop ==
    /\ tasks["heartbeat_loop"] = "running"
    /\ CASE SendOutcome = "sent" ->
              /\ Len(SentOfType("heartbeat")) < MaxAgentFrames
              /\ conn_sent' = Append(conn_sent, HeartbeatFrame)
              /\ tasks' = IF running THEN tasks
                          ELSE [tasks EXCEPT !["heartbeat_loop"] = "done"]
         [] SendOutcome = "raised" ->
              /\ tasks' = [tasks EXCEPT !["heartbeat_loop"] = "failed"]
              /\ UNCHANGED conn_sent
         [] OTHER ->
              /\ ~running
              /\ tasks' = [tasks EXCEPT !["heartbeat_loop"] = "done"]
              /\ UNCHANGED conn_sent
    /\ UNCHANGED <<running, auth_token, agent_pc, attempt, agent_ws, executing,
                   conn_recv, retry_at, poll_errors>>
    /\ UNCHANGED <<coord_vars, det_vars, other_vars>>

\* Lines 224-228: one turn of _monitor_sessions.
MonitorSessions(change, error) ==
    /\ tasks["monitor_sessions"] = "running"
    /\ IF running
       THEN /\ CheckSessionsBounded(change, error)
            /\ CheckSessions(change, error)
            /\ <<conn_sent', poll_errors'>> # <<conn_sent, poll_errors>>
            /\ UNCHANGED tasks
       ELSE /\ tasks' = [tasks EXCEPT !["monitor_sessions"] = "done"]
            /\ UNCHANGED <<conn_sent, poll_errors>>
    /\ UNCHANGED <<running, auth_token, agent_pc, attempt, agent_ws, executing,
                   conn_recv, retry_at>>
    /\ UNCHANGED <<coord_vars, det_vars, other_vars>>

\* Lines 83-89 leaving the pending tasks as they are.
cancel_pending_forgotten(ts) == ts

\* Lines 88-89: task.cancel() on the pending tasks.
cancel_pending(ts) ==
    [t \in TaskNames |-> IF ts[t] = "running" THEN "cancelled" ELSE ts[t]]

\* Lines 83-102: asyncio.wait returns with the first task that completed,
\* the pending tasks are cancelled and the websocket is closed.
Supervise ==
    /\ agent_pc = "active"
    /\ \E t \in TaskNames : tasks[t] \in {"failed", "done"}
    /\ tasks' = cancel_pending(tasks)
    /\ agent_ws' = "closed"
    /\ Drop
    /\ UNCHANGED <<running, auth_token, attempt, conn_sent, conn_recv, poll_errors>>
    /\ UNCHANGED <<coord_vars, det_vars, other_vars>>

\* Line 102: the time of asyncio.sleep(5) passes.
SleepTick ==
    /\ agent_pc = "sleeping"
    /\ now < retry_at
    /\ now' = retry_at
    /\ UNCHANGED <<other_vars, agent_vars, det_vars, auth_tokens, clients, websocket_to_client,
                   all_sessions, client, ws, pc, client_id, sent, monitor, results,
                   next_request_id, logged, n_updates, n_heartbeats>>

\* Lines 102 and 61: the sleep is over and the loop goes on if the agent is
\* still running.
Reconnect ==
    /\ agent_pc = "sleeping"
    /\ now >= retry_at
    /\ agent_pc' = IF running THEN "connecting" ELSE "stopped"
    /\ UNCHANGED <<running, auth_token, attempt, agent_ws, tasks, executing,
                   conn_sent, conn_recv, retry_at, poll_errors>>
    /\ UNCHANGED <<coord_vars, det_vars, other_vars>>

\* Lines 104-108: disconnect.
Disconnect ==
    /\ running
    /\ agent_pc \notin {"new", "stopped"}
    /\ running' = FALSE
    /\ agent_ws' = IF agent_ws \in {"open", "closing"} THEN "closed" ELSE agent_ws
    /\ UNCHANGED <<auth_token, agent_pc, attempt, tasks, executing, conn_sent,
                   conn_recv, retry_at, poll_errors>>
    /\ UNCHANGED <<coord_vars, det_vars, other_vars>>

(***************************************************************************)
(* CommandRouter.  A string is the sequence of its pieces: a letter, an    *)
(* underscore, a space, the sigil, or a whole word of the input.  The      *)
(* Chinese phrases of the source are written in pinyin: "zhuangtai" and    *)
(* "suoyouhuihua" for the two status phrases, "qiehuandao" for the switch  *)
(* phrase and "mulu" for the word that may close it.  NoneStr is None      *)
(* where a str is expected.                                                *)
(***************************************************************************)
NoneStr == <<None>>

\* str.lower() on a string.
LowerStr(s) == [i \in DOMAIN s |-> Lower(s[i])]

\* \w of the regular expressions.
IsWord(piece) == piece \notin {" ", "#"}

\* name.endswith(suffix)
EndsWith(name, suffix) ==
    /\ Len(suffix) <= Len(name)
    /\ SubSeq(name, Len(name) - Len(suffix) + 1, Len(name)) = suffix

\* sub in name
Contains(name, sub) ==
    \E i \in 1..(Len(name) + 1) :
        /\ i + Len(sub) - 1 <= Len(name)
        /\ SubSeq(name, i, i + Len(sub) - 1) = sub

\* s.startswith(prefix)
StartsWith(s, prefix) ==
    Len(prefix) <= Len(s) /\ SubSeq(s, 1, Len(prefix)) = prefix

\* Line 42: the status phrases.
status_phrases ==
    { <<"status">>, <<"all", " ", "sessions">>, <<"zhuangtai">>,
      <<"suoyouhuihua">> }

\* Lines 46-51: the switch patterns, in order.  Each is its literal prefix,
\* whether \s* surrounds the group, and the literal that must follow.
switch_patterns ==
    << [prefix |-> <<"switch", " ", "to", " ">>, spaces |-> FALSE, closing |-> <<>>],
       [prefix |-> <<"qiehuandao">>, spaces |-> FALSE, closing |-> <<>>],
       [prefix |-> <<"go", " ", "to", " ">>, spaces |-> FALSE, closing |-> <<>>],
       [prefix |-> <<"qiehuandao">>, spaces |-> TRUE, closing |-> <<"mulu">>] >>

\* How many pieces of s from position i on satisfy Test, one after another.
RunLen(s, i, Test(_)) ==
    LET ns == {n \in 0..(Len(s) + 1 - i) : \A k \in i..(i + n - 1) : Test(s[k])}
    IN  CHOOSE n \in ns : \A m \in ns : m <= n

NoSpan == [start |-> 0, len |-> 0]

\* re.match(pattern, s): where the group (\w+) of the match lies in s,
\* NoSpan when the pattern does not match at the start of s.  \w+ takes the
\* longest run of word pieces that lets the rest of the pattern match.
MatchSpan(p, s) ==
    IF ~StartsWith(s, p.prefix) THEN NoSpan
    ELSE LET i == Len(p.prefix) + 1
             j == IF p.spaces THEN i + RunLen(s, i, IsSpace) ELSE i
             n == RunLen(s, j, IsWord)
             k == j + n
             t == RunLen(s, k, IsSpace)
         IN  IF n = 0 THEN NoSpan
             ELSE IF p.closing = <<>> THEN [start |-> j, len |-> n]
             ELSE IF t > 0 /\ StartsWith(SubSeq(s, k + t, Len(s)), p.closing)
             THEN [start |-> j, len |-> n]
             ELSE IF n >= 2 /\ <<s[k - 1]>> = p.closing
             THEN [start |-> j, len |-> n - 1]
             ELSE NoSpan

\* Lines 52-55: the span of the group of the first pattern that matches.
RECURSIVE FirstMatch(_, _)
FirstMatch(patterns, s) ==
    IF patterns = <<>> THEN NoSpan
    ELSE IF MatchSpan(Head(patterns), s) # NoSpan
    THEN MatchSpan(Head(patterns), s)
    ELSE FirstMatch(Tail(patterns), s)

\* match.group(1)
Group(s, span) == SubSeq(s, span.start, span.start + span.len - 1)

\* Lines 60-62: user_input[1:].split(" ", 1)
SplitFirstSpace(s) ==
    LET n == RunLen(s, 1, LAMBDA c : ~IsSpace(c))
    IN  IF n = Len(s) THEN <<s>>
        ELSE <<SubSeq(s, 1, n), SubSeq(s, n + 2, Len(s))>>

\* parse_input, with cur the router's current_session.
parse_input(cur, input) ==
    LET u == StripLine(input)
        span == FirstMatch(switch_patterns, LowerStr(u))
    IN  IF LowerStr(u) \in status_phrases
        THEN [command_type |-> "status_query", session_id |-> NoneStr, command |-> u]
        ELSE IF span # NoSpan
        THEN [command_type |-> "session_command",
              session_id |-> Group(LowerStr(u), span), command |-> <<>>]
        ELSE IF StartsWith(u, <<"#">>)
        THEN LET parts == SplitFirstSpace(Tail(u))
             IN  [command_type |-> "session_command", session_id |-> parts[1],
                  command |-> IF Len(parts) > 1 THEN parts[2] ELSE <<>>]
        ELSE [command_type |-> "current_session", session_id |-> cur, command |-> u]

\* The first name of the dict, in its order, that satisfies Test.
FirstName(ss, Test(_)) ==
    IF \E i \in DOMAIN ss : Test(ss[i])
    THEN ss[CHOOSE i \in DOMAIN ss :
                Test(ss[i]) /\ \A j \in DOMAIN ss : Test(ss[j]) => i <= j]
    ELSE NoneStr

\* find_session trying the substring match before the suffix match.
find_session_substring_first(ss, session_id) ==
    IF FirstName(ss, LAMBDA name : name = session_id) # NoneStr
    THEN FirstName(ss, LAMBDA name : name = session_id)
    ELSE IF FirstName(ss, LAMBDA name :
                Contains(LowerStr(name), LowerStr(session_id))) # NoneStr
    THEN FirstName(ss, LAMBDA name : Contains(LowerStr(name), LowerStr(session_id)))
    ELSE FirstName(ss, LAMBDA name : EndsWith(name, <<"_">> \o session_id))

\* find_session
find_session(ss, session_id) ==
    IF FirstName(ss, LAMBDA name : name = session_id) # NoneStr
    THEN FirstName(ss, LAMBDA name : name = session_id)
    ELSE IF FirstName(ss, LAMBDA name : EndsWith(name, <<"_">> \o session_id)) # NoneStr
    THEN FirstName(ss, LAMBDA name : EndsWith(name, <<"_">> \o session_id))
    ELSE FirstName(ss, LAMBDA name : Contains(LowerStr(name), LowerStr(session_id)))

\* not x, for a str or None.
Falsy(x) == x = NoneStr \/ x = <<>>

NoParse == [command_type |-> "none", session_id |-> NoneStr, command |-> <<>>]

NoCall == [session_name |-> NoneStr, command |-> <<>>]

NoReply == [kind |-> "none"]

\* How send_command_with_response may end for the router.
RouterOutcomes == {"success", "error", "exception"}

\* The session names the pane inspector may report.
RouterNames == { <<"a">>, <<"A">>, <<"b", "_", "a">> }

\* The lists update_sessions may be given.
SessionLists == UNION {[1..n -> RouterNames] : n \in 0..MaxSessions}

\* The words that follow a switch phrase or the sigil.
Words == { <<"a">>, <<"A">> }

InputPieces == {"a", " ", "#", "status", "ls"}

\* What the operator may type: every short text, the status phrases, the
\* switch phrases with what may follow them, and the sigil with a word and
\* a command.
UserInputs ==
    UNION {[1..n -> InputPieces] : n \in 0..MaxInput}
    \cup { <<"Status">>, <<" ", "status", " ">>, <<"all", " ", "sessions">>,
           <<"zhuangtai">>, <<"suoyouhuihua">>, <<"status", " ", "a">>,
           <<"switch", " ", "to">>, <<"ls", " ", "a">>, <<"#", "ls", " ", "a">> }
    \cup { pre \o w \o post :
              pre \in { <<"switch", " ", "to", " ">>, <<"Switch", " ", "to", " ">>,
                        <<"go", " ", "to", " ">>, <<"qiehuandao">>,
                        <<"qiehuandao", " ">> },
              w \in Words,
              post \in { <<>>, <<" ", "ls">>, <<" ", "mulu">>, <<"mulu">> } }
    \cup { <<"#">> \o w \o c :
              w \in Words, c \in { <<" ", "ls">>, <<" ", "ls", " ", "a">> } }

\* CommandRouter.__init__, and no route_command under way.
RouterNew ==
    /\ sessions = <<>>
    /\ current_session = NoneStr
    /\ user_input = <<>>
    /\ parsed = NoParse
    /\ matched = NoneStr
    /\ pane_call = NoCall
    /\ reply = NoReply

\* handle_session_command reporting a session that is not found without
\* the names it knows.
handle_session_command_no_list(session_id, command, outcome) ==
    IF Falsy(session_id)
    THEN /\ reply' = [kind |-> "no_session"]
         /\ matched' = NoneStr
         /\ UNCHANGED current_session
         /\ pane_call' = NoCall
    ELSE /\ matched' = find_session(sessions, session_id)
         /\ IF Falsy(matched')
            THEN /\ reply' = [kind |-> "not_found", session_id |-> session_id,
                              available |-> <<>>]
                 /\ UNCHANGED current_session
                 /\ pane_call' = NoCall
            ELSE /\ current_session' = matched'
                 /\ IF command = <<>>
                    THEN /\ reply' = [kind |-> "switched", session |-> matched']
                         /\ pane_call' = NoCall
                    ELSE /\ pane_call' = [session_name |-> matched', command |-> command]
                         /\ reply' = [kind |-> outcome, session |-> matched']

\* handle_session_command not making the session it found the current one.
handle_session_command_keeps_current(session_id, command, outcome) ==
    IF Falsy(session_id)
    THEN /\ reply' = [kind |-> "no_session"]
         /\ matched' = NoneStr
         /\ UNCHANGED current_session
         /\ pane_call' = NoCall
    ELSE /\ matched' = find_session(sessions, session_id)
         /\ UNCHANGED current_session
         /\ IF Falsy(matched')
            THEN /\ reply' = [kind |-> "not_found", session_id |-> session_id,
                              available |-> sessions]
                 /\ pane_call' = NoCall
            ELSE IF command = <<>>
                 THEN /\ reply' = [kind |-> "switched", session |-> matched']
                      /\ pane_call' = NoCall
                 ELSE /\ pane_call' = [session_name |-> matched', command |-> command]
                      /\ reply' = [kind |-> outcome, session |-> matched']

\* handle_session_command, with outcome the way send_command_with_response
\* ends if it is called.
handle_session_command(session_id, command, outcome) ==
    IF Falsy(session_id)
    THEN /\ reply' = [kind |-> "no_session"]
         /\ matched' = NoneStr
         /\ UNCHANGED current_session
         /\ pane_call' = NoCall
    ELSE /\ matched' = find_session(sessions, session_id)
         /\ IF Falsy(matched')
            THEN /\ reply' = [kind |-> "not_found", session_id |-> session_id,
                              available |-> sessions]
                 /\ UNCHANGED current_session
                 /\ pane_call' = NoCall
            ELSE /\ current_session' = matched'
                 /\ IF command = <<>>
                    THEN /\ reply' = [kind |-> "switched", session |-> matched']
                         /\ pane_call' = NoCall
                    ELSE /\ pane_call' = [session_name |-> matched', command |-> command]
                         /\ reply' = [kind |-> outcome, session |-> matched']

\* handle_status_query
handle_status_query ==
    IF sessions = <<>> THEN [kind |-> "no_sessions"]
    ELSE [kind |-> "status", listed |-> sessions, current |-> current_session]

\* The outcomes that make a difference to a call of route_command: those
\* of send_command_with_response when it is called, one otherwise.
OutcomesOf(p) ==
    IF /\ p.command_type \in {"session_command", "current_session"}
       /\ ~Falsy(p.session_id)
       /\ ~Falsy(find_session(sessions, p.session_id))
       /\ p.command # <<>>
    THEN RouterOutcomes
    ELSE {"success"}

\* route_command
route_command(input, outcome) ==
    /\ user_input' = input
    /\ parsed' = parse_input(current_session, input)
    /\ outcome \in OutcomesOf(parsed')
    /\ IF parsed'.command_type = "status_query"
       THEN /\ reply' = handle_status_query
            /\ matched' = NoneStr
            /\ pane_call' = NoCall
            /\ UNCHANGED current_session
       ELSE IF parsed'.command_type = "session_command"
       THEN handle_session_command(parsed'.session_id, parsed'.command, outcome)
       ELSE IF ~Falsy(parsed'.session_id)
       THEN handle_session_command(parsed'.session_id, parsed'.command, outcome)
       ELSE /\ reply' = [kind |-> "specify_session"]
            /\ matched' = NoneStr
            /\ pane_call' = NoCall
            /\ UNCHANGED current_session

\* The operator's input is routed.
Route(input, outcome) ==
    /\ route_command(input, outcome)
    /\ UNCHANGED sessions
    /\ UNCHANGED <<coord_vars, det_vars, agent_vars, cache_vars, codec_vars, live_vars, n_rejected>>

\* The keys of the dict update_sessions builds from the list, in dict order.
RECURSIVE DictKeys(_, _)
DictKeys(keys, list) ==
    IF list = <<>> THEN keys
    ELSE DictKeys(IF \E i \in DOMAIN keys : keys[i] = Head(list)
                  THEN keys ELSE Append(keys, Head(list)),
                  Tail(list))

\* update_sessions(list), between two calls of route_command: what the
\* last call returned has been consumed.
UpdateSessions(list) ==
    /\ sessions' = DictKeys(<<>>, list)
    /\ user_input' = <<>>
    /\ parsed' = NoParse
    /\ matched' = NoneStr
    /\ pane_call' = NoCall
    /\ reply' = NoReply
    /\ UNCHANGED current_session
    /\ UNCHANGED <<coord_vars, det_vars, agent_vars, cache_vars, codec_vars, live_vars, n_rejected>>

(***************************************************************************)
(* Message.to_json and Message.from_json.  A Python value is tagged with   *)
(* its type; a dict is the sequence of its items, in dict order; a JSON    *)
(* object is a record of its keys.                                         *)
(***************************************************************************)
\* MessageType: the value of each member.
MessageType ==
    [REGISTER |-> "register", HEARTBEAT |-> "heartbeat",
     SESSION_UPDATE |-> "session_update", COMMAND_RESPONSE |-> "command_response",
     ERROR |-> "error", AUTH |-> "auth", REGISTER_ACK |-> "register_ack",
     EXECUTE_COMMAND |-> "execute_command", QUERY_STATUS |-> "query_status",
     CONTROL |-> "control", AUTH_RESULT |-> "auth_result"]

\* MessageType(value) finds a member.
IsMessageType(value) == \E t \in DOMAIN MessageType : MessageType[t] = value

\* MessageType(value)
MemberOf(value) == CHOOSE t \in DOMAIN MessageType : MessageType[t] = value

Absent == [absent |-> TRUE]

\* What from_json leaves when it raises.
DecodeError == [raised |-> TRUE]

PyScalars ==
    { [t |-> "str", v |-> "x"], [t |-> "int", v |-> "1"], [t |-> "none", v |-> "None"] }

PyValues ==
    PyScalars \cup { [t |-> "list", items |-> <<[t |-> "int", v |-> "1"]>>],
                     [t |-> "tuple", items |-> <<[t |-> "int", v |-> "1"]>>] }

PyKeys ==
    { [t |-> "str", v |-> "k"], [t |-> "str", v |-> "n"], [t |-> "int", v |-> "1"] }

\* The dicts a Message may carry as data.
PyDicts ==
    {d \in UNION {[1..n -> [key : PyKeys, value : PyValues]] : n \in 0..MaxKeys} :
        \A i, j \in DOMAIN d : d[i].key = d[j].key => i = j}

Timestamps == {0, 17}

Messages == [type : DOMAIN MessageType, timestamp : Timestamps, data : PyDicts]

\* json.loads(json.dumps(x)) for a value: a tuple is written as an array
\* and read as a list.
JsonValue(x) == IF x.t = "tuple" THEN [t |-> "list", items |-> x.items] ELSE x

\* json.loads(json.dumps(d)) for a dict: a key is written as a string.
JsonDict(d) ==
    [i \in DOMAIN d |->
        [key |-> [t |-> "str", v |-> d[i].key.v], value |-> JsonValue(d[i].value)]]

\* Lines 54-58
to_json(m) ==
    [type |-> MessageType[m.type], timestamp |-> m.timestamp, data |-> JsonDict(m.data)]

\* from_json taking a type it does not know for an ERROR.
from_json_coerces(text) ==
    IF ~({"type", "timestamp", "data"} \subseteq DOMAIN text) THEN DecodeError
    ELSE [type |-> IF IsMessageType(text.type) THEN MemberOf(text.type) ELSE "ERROR",
          timestamp |-> text.timestamp, data |-> text.data]

\* from_json stamping the message with the time it is read at.
from_json_restamps(text) ==
    IF ~({"type", "timestamp", "data"} \subseteq DOMAIN text) THEN DecodeError
    ELSE IF ~IsMessageType(text.type) THEN DecodeError
    ELSE [type |-> MemberOf(text.type), timestamp |-> text.timestamp + 1,
          data |-> text.data]

\* Lines 60-68: data["type"], data["timestamp"] and data["data"] raise
\* KeyError when the key is missing, MessageType(...) raises ValueError.
from_json(text) ==
    IF ~({"type", "timestamp", "data"} \subseteq DOMAIN text) THEN DecodeError
    ELSE IF ~IsMessageType(text.type) THEN DecodeError
    ELSE [type |-> MemberOf(text.type), timestamp |-> text.timestamp,
          data |-> text.data]

\* Frames that were not written by to_json: of a type outside MessageType,
\* without one of the three keys, or not a JSON object at all.
ForeignFrames ==
    { [type |-> "shutdown", timestamp |-> 0, data |-> <<>>],
      [type |-> "REGISTER", timestamp |-> 0, data |-> <<>>],
      [timestamp |-> 0, data |-> <<>>],
      [type |-> "heartbeat", data |-> <<>>],
      [type |-> "heartbeat", timestamp |-> 0],
      [text |-> "not json"],
      [type |-> "heartbeat", timestamp |-> 0, data |-> <<>>, extra |-> 0] }

\* No message is being encoded or decoded.
CodecIdle ==
    /\ message = Absent
    /\ wire = Absent
    /\ decoded = Absent

\* A message is written to the wire.
Encode ==
    /\ message # Absent
    /\ wire = Absent
    /\ wire' = to_json(message)
    /\ UNCHANGED <<message, decoded>>
    /\ UNCHANGED <<coord_vars, det_vars, agent_vars, cache_vars, router_vars, live_vars, n_rejected>>

\* A frame of another writer arrives.
Arrive(text) ==
    /\ message = Absent
    /\ wire = Absent
    /\ wire' = text
    /\ UNCHANGED <<message, decoded>>
    /\ UNCHANGED <<coord_vars, det_vars, agent_vars, cache_vars, router_vars, live_vars, n_rejected>>

\* The text on the wire is read.
Decode ==
    /\ wire # Absent
    /\ decoded = Absent
    /\ decoded' = from_json(wire)
    /\ UNCHANGED <<message, wire>>
    /\ UNCHANGED <<coord_vars, det_vars, agent_vars, cache_vars, router_vars, live_vars, n_rejected>>

\* Lines 193-194 and 212-213: a registered agent sends a frame from_json
\* raises on; the exception is logged.
MalformedFrame(w, text) ==
    /\ pc[w] = "loop"
    /\ ws[w] = "open"
    /\ from_json(text) = DecodeError
    /\ n_rejected < MaxRejected
    /\ n_rejected' = n_rejected + 1
    /\ UNCHANGED <<coord_vars, det_vars, agent_vars, cache_vars, router_vars, codec_vars, live_vars>>

(***************************************************************************)
(* The agents behind the coordinator's connections, their heartbeat loops  *)
(* and their command executions, in the coordinator's time.                *)
(***************************************************************************)
\* The peer of the connection runs no _heartbeat_loop.
NoBeat == 0 - 1

NotBusy == [since |-> 0 - 1, taken |-> 0]

LiveIdle ==
    /\ next_beat = [w \in AllConns |-> NoBeat]
    /\ busy = [w \in AllConns |-> NotBusy]
    /\ upstream = [w \in AllConns |-> <<>>]

\* Lines 73-80: the agent has sent REGISTER and starts its tasks;
\* _heartbeat_loop begins its first sleep.
StartTasks(w) ==
    /\ pc[w] = "send_ack"
    /\ ws[w] = "open"
    /\ next_beat[w] = NoBeat
    /\ next_beat' = [next_beat EXCEPT ![w] = now + heartbeat_interval]
    /\ UNCHANGED <<busy, upstream>>
    /\ UNCHANGED <<coord_vars, det_vars, agent_vars, cache_vars, router_vars, codec_vars, n_rejected>>

\* Lines 266-269: the sleep of _heartbeat_loop is over and the websocket is
\* open, whatever _handle_messages is doing.
heartbeat_ready(w) ==
    /\ next_beat[w] # NoBeat
    /\ next_beat[w] <= now
    /\ ws[w] = "open"

\* Lines 269-273: the HEARTBEAT is sent and the loop sleeps again.
AgentBeat(w) ==
    /\ heartbeat_ready(w)
    /\ next_beat' = [next_beat EXCEPT ![w] = now + heartbeat_interval]
    /\ upstream' = [upstream EXCEPT ![w] = Append(@, HeartbeatFrame)]
    /\ UNCHANGED busy
    /\ UNCHANGED <<coord_vars, det_vars, agent_vars, cache_vars, router_vars, codec_vars, n_rejected>>

\* The EXECUTE_COMMAND frames sent on the connection.
CommandsSent(w) == SelectSeq(sent[w], LAMBDA f : f.type = "execute_command")

\* _handle_messages taking the next frame while a command is executing.
StartExecuting_while_busy(w) ==
    /\ next_beat[w] # NoBeat
    /\ ws[w] = "open"
    /\ busy[w].taken < Len(CommandsSent(w))
    /\ busy' = [busy EXCEPT ![w] = [since |-> now, taken |-> @.taken + 1]]
    /\ UNCHANGED <<next_beat, upstream>>
    /\ UNCHANGED <<coord_vars, det_vars, agent_vars, cache_vars, router_vars, codec_vars, n_rejected>>

\* Lines 147-148, 162-163 and 186: _handle_messages, which is executing no
\* command, takes the next EXECUTE_COMMAND from the websocket and executes
\* it.
StartExecuting(w) ==
    /\ next_beat[w] # NoBeat
    /\ ws[w] = "open"
    /\ busy[w].since = NotBusy.since
    /\ busy[w].taken < Len(CommandsSent(w))
    /\ busy' = [busy EXCEPT ![w] = [since |-> now, taken |-> @.taken + 1]]
    /\ UNCHANGED <<next_beat, upstream>>
    /\ UNCHANGED <<coord_vars, det_vars, agent_vars, cache_vars, router_vars, codec_vars, n_rejected>>

\* Lines 186-209 and 275-280: the execution is over, after however long,
\* and its COMMAND_RESPONSE is sent unless the websocket is closed.
FinishExecuting(w, outcome) ==
    /\ busy[w].since # NotBusy.since
    /\ busy' = [busy EXCEPT ![w].since = NotBusy.since]
    /\ upstream' =
          IF ws[w] = "open"
          THEN [upstream EXCEPT ![w] = Append(@,
                    create_command_response(CommandsSent(w)[busy[w].taken], outcome))]
          ELSE upstream
    /\ UNCHANGED next_beat
    /\ UNCHANGED <<coord_vars, det_vars, agent_vars, cache_vars, router_vars, codec_vars, n_rejected>>

\* Lines 153-155 and 191-204 of the coordinator: the handler takes the next
\* frame of the connection and processes it to the end.
ProcessNext(w) ==
    /\ pc[w] = "loop"
    /\ ws[w] = "open"
    /\ upstream[w] # <<>>
    /\ upstream' = [upstream EXCEPT ![w] = Tail(@)]
    /\ LET msg == Head(upstream[w])
       IN  IF msg.type = "heartbeat"
           THEN /\ client' = [client EXCEPT ![w].last_heartbeat = now]
                /\ UNCHANGED <<logged, results, all_sessions>>
           ELSE IF msg.type = "session_update"
           THEN /\ client' = [client EXCEPT ![w] = handle_session_update(@, msg)]
                /\ all_sessions' =
                      IF msg.action \in {"added", "removed", "changed"}
                      THEN update_sessions(clients, client')
                      ELSE all_sessions
                /\ UNCHANGED <<logged, results>>
           ELSE /\ handle_command_response(w,
                        [request_id |-> msg.request_id, success |-> msg.success,
                         output |-> IF msg.success THEN "out" ELSE ""])
                /\ UNCHANGED <<client, all_sessions>>
    /\ UNCHANGED <<next_beat, busy>>
    /\ UNCHANGED <<now, auth_tokens, clients, websocket_to_client,
                   ws, pc, client_id, sent, monitor, next_request_id,
                   n_updates, n_heartbeats>>
    /\ UNCHANGED <<det_vars, agent_vars, cache_vars, router_vars, codec_vars, n_rejected>>

\* The event loops run what is ready before time goes on: no handler has an
\* acknowledgment to send or a frame to process, and no agent a heartbeat.
NothingReady ==
    \A w \in AllConns :
        /\ ~heartbeat_ready(w)
        /\ ~(pc[w] = "send_ack" /\ ws[w] = "open")
        /\ ~(pc[w] = "loop" /\ ws[w] = "open" /\ upstream[w] # <<>>)

(***************************************************************************)
(* The agent's session cache and its two duties that check the sessions:   *)
(* _monitor_sessions, and _handle_messages on a CONTROL frame that asks    *)
(* for a refresh.  A check stands "idle", or is suspended in the send of   *)
(* the notification of an added or of a removed session.                   *)
(***************************************************************************)
Duties == {"monitor_sessions", "handle_messages"}

\* The websocket of the agent whose cache the model follows: the first.
CacheConn == CHOOSE w \in Conns : \A v \in Conns : w <= v

\* What discover_claude_sessions may return, made a dict by name.
TmuxDicts ==
    { <<>>,
      <<SessionInfo("host_a", "d1")>>,
      <<SessionInfo("host_a", "d2")>>,
      <<SessionInfo("host_b", "d1")>>,
      <<SessionInfo("host_a", "d1"), SessionInfo("host_b", "d1")>>,
      <<SessionInfo("host_a", "d2"), SessionInfo("host_b", "d1")>> }

NoCheck == [phase |-> "idle", current |-> <<>>, keys |-> <<>>, i |-> 0]

\* CodemuxClient.__init__, with no Claude session in tmux yet.
CacheIdle ==
    /\ tmux = [sessions |-> <<>>, changes |-> 0]
    /\ sessions_cache = <<>>
    /\ checks = [d \in Duties |-> [check |-> NoCheck, started |-> 0]]

\* list(d.keys())
DictNames(d) == [i \in DOMAIN d |-> d[i].name]

\* d[name]
DictGet(d, name) == d[CHOOSE i \in DOMAIN d : d[i].name = name]

\* A Claude session starts, ends or moves to another pane or directory.
TmuxChange(new) ==
    /\ tmux.changes < MaxTmuxChanges
    /\ new # tmux.sessions
    /\ tmux' = [sessions |-> new, changes |-> tmux.changes + 1]
    /\ UNCHANGED <<sessions_cache, checks>>
    /\ UNCHANGED <<coord_vars, det_vars, agent_vars, router_vars, codec_vars,
                   live_vars, n_rejected>>

\* ProtocolHelper.create_register with the discovered sessions.
RegisterOf(cid, discovered) ==
    [type |-> "register", client_id |-> cid, well_formed |-> TRUE,
     sessions |-> discovered]

\* Lines 129-142 and 76-80: _register fills the cache and sends REGISTER,
\* and connect starts the three tasks.
AgentRegister(w, cid) ==
    /\ pc[w] = "recv_first"
    /\ ws[w] = "open"
    /\ next_beat[w] = NoBeat
    /\ sessions_cache' = tmux.sessions
    /\ upstream' = [upstream EXCEPT ![w] = Append(@, RegisterOf(cid, tmux.sessions))]
    /\ next_beat' = [next_beat EXCEPT ![w] = now + heartbeat_interval]
    /\ UNCHANGED <<tmux, checks, busy>>
    /\ UNCHANGED <<coord_vars, det_vars, agent_vars, router_vars, codec_vars, n_rejected>>

\* Lines 91-129 of the coordinator, the first frame being the agent's
\* REGISTER.
RecvRegister(w) ==
    /\ pc[w] = "recv_first"
    /\ ws[w] = "open"
    /\ upstream[w] # <<>>
    /\ upstream' = [upstream EXCEPT ![w] = Tail(@)]
    /\ HandleRegistration(w, Head(upstream[w]))
    /\ UNCHANGED <<next_beat, busy>>
    /\ UNCHANGED <<now, auth_tokens, monitor, results, next_request_id, logged,
                   n_updates, n_heartbeats>>
    /\ UNCHANGED <<det_vars, agent_vars, cache_vars, router_vars, codec_vars, n_rejected>>

\* Lines 236-238: the next session of current_dict, after the i-th, whose
\* name the cache does not have; 0 when there is none.
NextAdded(current, cache, i) ==
    LET js == {j \in DOMAIN current : j > i /\ ~DictHas(cache, current[j].name)}
    IN  IF js = {} THEN 0 ELSE CHOOSE j \in js : \A k \in js : j <= k

\* Lines 241-242: the next of the names, after the i-th, that current_dict
\* does not have; 0 when there is none.
NextRemoved(keys, current, i) ==
    LET js == {j \in DOMAIN keys : j > i /\ ~DictHas(current, keys[j])}
    IN  IF js = {} THEN 0 ELSE CHOOSE j \in js : \A k \in js : j <= k

\* Lines 236-251: where _check_sessions, running on from the i-th turn of
\* the loop of its phase, awaits next: the send of a notification, or
\* nowhere, having written the cache ("write") or raised the KeyError of
\* line 244 ("raise").  The name list of the second loop is taken from the
\* cache when the loop begins.
Position(current, phase, i, keys) ==
    LET j == IF phase = "added" THEN NextAdded(current, sessions_cache, i) ELSE 0
        ks == IF phase = "added" THEN DictNames(sessions_cache) ELSE keys
        k == NextRemoved(ks, current, IF phase = "added" THEN 0 ELSE i)
    IN  IF j # 0 THEN [phase |-> "added", i |-> j, keys |-> <<>>]
        ELSE IF k = 0 THEN [phase |-> "write", i |-> 0, keys |-> ks]
        ELSE IF ~DictHas(sessions_cache, ks[k]) THEN [phase |-> "raise", i |-> k, keys |-> ks]
        ELSE [phase |-> "removed", i |-> k, keys |-> ks]

\* Lines 254-262: the SESSION_UPDATE of a change.
SessionUpdateOf(action, session) ==
    [type |-> "session_update", action |-> action, session |-> session]

\* Lines 230-252: _check_sessions of a duty runs from where it stands to its
\* next await or to its end, on the open websocket w.
CheckRun(w, duty, current, phase, i, keys, started) ==
    LET p == Position(current, phase, i, keys)
    IN  /\ ws[w] = "open"
        /\ checks' = [checks EXCEPT ![duty] =
              [check |-> IF p.phase \in {"added", "removed"}
                         THEN [phase |-> p.phase, current |-> current,
                               keys |-> p.keys, i |-> p.i]
                         ELSE NoCheck,
               started |-> started]]
        /\ sessions_cache' = IF p.phase = "write" THEN current ELSE sessions_cache
        /\ upstream' =
              CASE p.phase = "added" ->
                      [upstream EXCEPT ![w] =
                          Append(@, SessionUpdateOf("added", current[p.i]))]
                [] p.phase = "removed" ->
                      [upstream EXCEPT ![w] =
                          Append(@, SessionUpdateOf("removed",
                                        DictGet(sessions_cache, p.keys[p.i])))]
                [] OTHER -> upstream
        /\ UNCHANGED <<tmux, next_beat, busy>>
        /\ UNCHANGED <<coord_vars, det_vars, agent_vars, router_vars, codec_vars,
                       n_rejected>>

\* Lines 224-228 and 232-233: _monitor_sessions, its sleep over, calls
\* _check_sessions, which discovers the sessions.
MonitorCheck(w) ==
    /\ next_beat[w] # NoBeat
    /\ checks["monitor_sessions"].check.phase = "idle"
    /\ checks["monitor_sessions"].started < MaxChecks
    /\ CheckRun(w, "monitor_sessions", tmux.sessions, "added", 0, <<>>,
                checks["monitor_sessions"].started + 1)

\* Lines 147-148, 168-169 and 216-222: _handle_messages takes a CONTROL
\* frame with the action refresh_sessions and calls _check_sessions.
ControlCheck(w) ==
    /\ next_beat[w] # NoBeat
    /\ checks["handle_messages"].check.phase = "idle"
    /\ checks["handle_messages"].started < MaxChecks
    /\ CheckRun(w, "handle_messages", tmux.sessions, "added", 0, <<>>,
                checks["handle_messages"].started + 1)

\* The send a check awaited is over and the check runs on.
CheckResume(w, duty) ==
    /\ checks[duty].check.phase # "idle"
    /\ CheckRun(w, duty, checks[duty].check.current, checks[duty].check.phase,
                checks[duty].check.i, checks[duty].check.keys, checks[duty].started)

(***************************************************************************)
(* The coordinator.                                                        *)
(***************************************************************************)
\* CodemuxServer.__init__
CoordInit ==
    /\ now = 0
    /\ auth_tokens \in AuthTokenSets
    /\ clients = <<>>
    /\ websocket_to_client = [w \in AllConns |-> None]
    /\ all_sessions = <<>>
    /\ client = [w \in AllConns |-> NoClient]
    /\ ws = [w \in AllConns |-> "unborn"]
    /\ pc = [w \in AllConns |-> "unborn"]
    /\ client_id = [w \in AllConns |-> None]
    /\ sent = [w \in AllConns |-> <<>>]
    /\ monitor = [pc |-> "sleep", wake |-> heartbeat_interval, dead |-> <<>>,
                  closing |-> NoConn, tick_at |-> 0]
    /\ results = <<>>
    /\ next_request_id = 1
    /\ logged = <<>>
    /\ n_updates = 0
    /\ n_heartbeats = 0

\* No frame has been rejected yet.
OtherIdle == RouterNew /\ CodecIdle /\ LiveIdle /\ CacheIdle /\ n_rejected = 0

Init == CoordInit /\ DetIdle /\ AgentNew /\ OtherIdle

\* The connection handlers and the agents behind them.
Handlers ==
    \/ \E w \in Conns : Accept(w)
    \/ \E w \in Conns, msg \in HandshakeMsgs : RecvFirst(w, msg)
    \/ \E w \in Conns, msg \in HandshakeMsgs : RecvRegistration(w, msg)
    \/ \E w \in Conns : RecvTimeout(w)
    \/ \E w \in Conns : SendAck(w)
    \/ \E w \in Conns : HandlerClosed(w)
    \/ \E w \in Conns : PeerClose(w)
    \/ \E w \in Conns, msg \in SessionUpdateMsgs : SessionUpdate(w, msg)
    \/ \E w \in Conns : OtherFrame(w)
    \/ \E w \in Conns, text \in ForeignFrames : MalformedFrame(w, text)

\* The coordinator and its agents, within the first sleep of the liveness
\* sweep and with no command dispatched.
Next == Handlers

Spec == Init /\ [][Next]_vars

\* The coordinator with no authentication configured.
InitNoAuth == Init /\ auth_tokens = {}

\* The REGISTER frames of agents that register well.
GoodRegisterMsgs ==
    {msg \in RegisterMsgs : msg.client_id # None /\ msg.well_formed}

\* The coordinator, agents that register well, and the operator's
\* dispatches, within the first sleep of the liveness sweep.
NextDispatch ==
    \/ \E w \in Conns : Accept(w)
    \/ \E w \in Conns, msg \in GoodRegisterMsgs : RecvFirst(w, msg)
    \/ \E w \in Conns : SendAck(w)
    \/ \E w \in Conns : HandlerClosed(w)
    \/ \E w \in Conns : PeerClose(w)
    \/ \E w \in Conns, msg \in CommandResponseMsgs : CommandResponse(w, msg)
    \/ \E call \in DispatchCalls :
          Dispatch(call.session_name, call.command, call.timeout)

SpecDispatch == InitNoAuth /\ [][NextDispatch]_vars

\* The REGISTER frames of the agents the liveness sweep watches: with no
\* session, or with two.
SweepRegisterMsgs ==
    {msg \in GoodRegisterMsgs : msg.sessions # <<SessionInfo("host_a", "d1")>>}

\* The coordinator, its liveness sweep and agents that register well and
\* then heartbeat or fall silent.
NextSweep ==
    \/ \E w \in Conns : Accept(w)
    \/ \E w \in Conns, msg \in SweepRegisterMsgs : RecvFirst(w, msg)
    \/ \E w \in Conns : SendAck(w)
    \/ \E w \in Conns : HandlerClosed(w)
    \/ \E w \in Conns : PeerClose(w)
    \/ \E w \in Conns : Heartbeat(w)
    \/ SweepTick
    \/ SweepCloseDone
    \/ AdvanceTime

SpecSweep == InitNoAuth /\ [][NextSweep]_vars

\* close() returns within its close_timeout, and the event loop runs every
\* task that is ready: the sweep goes on once a close has returned, and a
\* handler whose websocket is closed runs its finally block.
FairSweep ==
    /\ SpecSweep
    /\ WF_vars(SweepCloseDone)
    /\ \A w \in Conns : WF_vars(HandlerClosed(w))

\* The first and last lines of the snapshots _extract_new_content is
\* applied to.
DeltaLines == { <<>>, <<"ok">>, <<" ">>, <<" ", "ok", " ">> }

\* A snapshot of n lines.
DeltaContent(first, n, last) ==
    IF n = 1 THEN <<first>>
    ELSE <<first>> \o [i \in 1..(n - 2) |-> <<"ok">>] \o <<last>>

DeltaContents ==
    {DeltaContent(first, n, last) :
        first \in DeltaLines, n \in 1..MaxDeltaLines, last \in DeltaLines}

\* _extract_new_content is about to be applied to a baseline and a final
\* snapshot.
InitDelta ==
    /\ CoordInit
    /\ auth_tokens = {}
    /\ AgentNew
    /\ OtherIdle
    /\ det_pc = "extract"
    /\ det_timeout = 0
    /\ elapsed = 0
    /\ old_content \in DeltaContents
    /\ last_content = EmptyContent
    /\ current_content \in DeltaContents
    /\ injected = 0
    /\ det_result = NoResult
    /\ trace = <<>>

\* Line 96: new_output = self._extract_new_content(old_content, current_content)
Extract ==
    /\ det_pc = "extract"
    /\ det_pc' = "done"
    /\ det_result' = [returned |-> TRUE, success |-> TRUE,
                      output |-> extract_new_content(old_content, current_content)]
    /\ UNCHANGED <<det_timeout, elapsed, old_content, last_content, current_content,
                   injected, trace>>
    /\ UNCHANGED <<coord_vars, agent_vars, other_vars>>

NextDelta == Extract

SpecDelta == InitDelta /\ [][NextDelta]_vars

\* The router, the operator who types and the refreshes of the session
\* list.
NextRouter ==
    \/ \E list \in SessionLists : UpdateSessions(list)
    \/ \E input \in UserInputs :
          \E outcome \in OutcomesOf(parse_input(current_session, input)) :
              Route(input, outcome)

SpecRouter == InitNoAuth /\ [][NextRouter]_vars

\* A message to encode and decode, or a frame of another writer to decode.
InitCodec ==
    /\ CoordInit
    /\ auth_tokens = {}
    /\ DetIdle
    /\ AgentNew
    /\ RouterNew
    /\ LiveIdle
    /\ CacheIdle
    /\ n_rejected = 0
    /\ message \in Messages \cup {Absent}
    /\ wire = Absent
    /\ decoded = Absent

NextCodec ==
    \/ Encode
    \/ \E text \in ForeignFrames : Arrive(text)
    \/ Decode

SpecCodec == InitCodec /\ [][NextCodec]_vars

\* The agents of this specification register one session, host_a, and the
\* operator dispatches to it; an execution ends well.
LiveRegisterMsgs ==
    {msg \in GoodRegisterMsgs : msg.sessions = <<SessionInfo("host_a", "d1")>>}

LiveCalls == {call \in DispatchCalls : call.session_name = "host_a"}

LiveOutcomes == {"success"}

\* The coordinator with its liveness sweep, the agents with their heartbeat
\* loops, peers that never send a heartbeat, and the operator's dispatches.
NextLive ==
    \/ \E w \in Conns : Accept(w)
    \/ \E w \in AllConns \ Conns : AcceptAgain(w)
    \/ \E w \in AllConns, msg \in LiveRegisterMsgs : RecvFirst(w, msg)
    \/ \E w \in AllConns : StartTasks(w)
    \/ \E w \in AllConns : SendAck(w)
    \/ \E w \in AllConns : HandlerClosed(w)
    \/ \E w \in AllConns : AgentBeat(w)
    \/ \E w \in AllConns : ProcessNext(w)
    \/ \E call \in LiveCalls :
          Dispatch(call.session_name, call.command, call.timeout)
    \/ \E w \in AllConns : StartExecuting(w)
    \/ \E w \in AllConns, outcome \in LiveOutcomes : FinishExecuting(w, outcome)
    \/ SweepTick
    \/ SweepCloseDone
    \/ NothingReady /\ AdvanceTime

SpecLive == InitNoAuth /\ [][NextLive]_vars

\* One agent that registers and checks its sessions from both duties while
\* tmux changes, and the coordinator's handler of its connection.
NextCache ==
    \/ Accept(CacheConn)
    \/ \E new \in TmuxDicts : TmuxChange(new)
    \/ AgentRegister(CacheConn, "a1")
    \/ RecvRegister(CacheConn)
    \/ SendAck(CacheConn)
    \/ MonitorCheck(CacheConn)
    \/ ControlCheck(CacheConn)
    \/ \E duty \in Duties : CheckResume(CacheConn, duty)
    \/ ProcessNext(CacheConn)

SpecCache == InitNoAuth /\ [][NextCache]_vars

\* One command execution of the agent's completion detector.
InitDet == InitNoAuth

NextDet ==
    \/ \E t \in DetTimeouts, baseline \in Baselines, sent_ok \in BOOLEAN,
          d \in 0..MaxJitter :
          DetStart(t, baseline, sent_ok, d)
    \/ \E d \in check_interval..(check_interval + MaxJitter), content \in Captures :
          Poll(d, content)
    \/ ResponseTimeout

SpecDet == InitDet /\ [][NextDet]_vars

\* The agent, the coordinator behind its connection and the operator who
\* may call disconnect.
NextAgent ==
    \/ \E token \in AgentTokens : AgentStart(token)
    \/ \E ok \in BOOLEAN : Connect(ok)
    \/ \E msg \in AgentInbound : AuthReply(msg)
    \/ AuthClosed
    \/ ServerClose
    \/ ServerCloseDone
    \/ \E msg \in AgentInbound, change \in BOOLEAN : ProcessMessage(msg, change)
    \/ \E outcome \in ExecOutcomes : ExecuteDone(outcome)
    \/ HandleMessagesEnds
    \/ HeartbeatLoop
    \/ \E change, error \in BOOLEAN : MonitorSessions(change, error)
    \/ Supervise
    \/ SleepTick
    \/ Reconnect
    \/ Disconnect

SpecAgent == InitNoAuth /\ [][NextAgent]_vars

\* The event loop runs every task that is ready and asyncio.sleep returns:
\* connect goes on when a task has completed, when recv has raised and
\* when its sleep is over.
FairAgent ==
    /\ SpecAgent
    /\ WF_vars(Supervise)
    /\ WF_vars(AuthClosed)
    /\ WF_vars(SleepTick)
    /\ WF_vars(Reconnect)

(***************************************************************************)
(* The coordinator's properties.                                           *)
(***************************************************************************)
\* The registry holds the ClientConnection of websocket w.
InRegistry(cs, w) == \E i \in DOMAIN cs : cs[i].ws = w

\* The registry holds a client that advertises the session name.
Owners(name) ==
    {i \in DOMAIN clients :
        \E k \in DOMAIN client[clients[i].ws].sessions :
            client[clients[i].ws].sessions[k].name = name}

\* The handler of w ends, having registered its client.
RegisteredHandlerEnds(w) == pc[w] \in {"send_ack", "loop"} /\ pc'[w] = "done"

\* C1: when the handler of an earlier connection ends, the registry entry
\* that a later, still open connection holds under the same agent_id stays:
\* the entry still maps the agent_id to the later connection, and the later
\* connection's sessions are in the derived session list.
C1_LastRegisteredWins ==
    [][\A w \in Conns : RegisteredHandlerEnds(w) =>
          LET v == ClientsGet(clients, client[w].client_id)
          IN  (v # NoConn /\ v # w /\ ws[v] = "open")
                  => /\ ClientsGet(clients', client[w].client_id) = v
                     /\ \A k \in DOMAIN client[v].sessions :
                           \E n \in DOMAIN all_sessions' :
                              /\ all_sessions'[n].name = client[v].sessions[k].name
                              /\ all_sessions'[n].client_id = client[v].client_id
      ]_vars

\* The liveness sweep wakes up and lists the dead clients.
SweepTickStep == monitor.pc = "sleep" /\ monitor' # monitor

\* The sweep, after the step, is closing websocket w or has the client id
\* cid on its list of clients to close.
Selected(w, cid) ==
    /\ monitor'.pc = "closing"
    /\ \/ monitor'.closing = w /\ ws'[w] # "open"
       \/ \E k \in DOMAIN monitor'.dead : monitor'.dead[k] = cid

\* The sweep has picked the registered connection w for closing.
Picked(w) ==
    /\ InRegistry(clients, w)
    /\ monitor.pc = "closing"
    /\ \/ monitor.closing = w
       \/ \E k \in DOMAIN monitor.dead : monitor.dead[k] = client[w].client_id

\* C2: at a tick of the liveness sweep every registered connection whose
\* last_heartbeat is older than the timeout threshold is closed by the sweep
\* or queued by it for closing; a connection the sweep has picked leaves the
\* registry; and when the handler of a connection has ended, the connection
\* is not in the registry and the derived session list is the registry's
\* flattening, so none of its sessions is listed.
C2_SweepEvicts ==
    /\ [][SweepTickStep =>
            \A i \in DOMAIN clients :
                (now - client[clients[i].ws].last_heartbeat > heartbeat_timeout)
                    => Selected(clients[i].ws, clients[i].client_id)]_vars
    /\ \A w \in Conns : Picked(w) ~> ~InRegistry(clients, w)
    /\ [][\A w \in Conns : (pc[w] # "done" /\ pc'[w] = "done") =>
            /\ ~InRegistry(clients', w)
            /\ all_sessions' = update_sessions(clients', client')
            /\ \A n \in DOMAIN all_sessions' :
                  all_sessions'[n].client_id \in
                      {clients'[i].client_id : i \in DOMAIN clients'}]_vars

\* The sweep closed a registered connection whose last heartbeat was older
\* than the threshold, the connection's handler has ended, and the registry
\* and the derived session list are empty.
C2_Witness ==
    /\ monitor.pc = "closing"
    /\ pc[monitor.closing] = "done"
    /\ monitor.tick_at > heartbeat_timeout
    /\ clients = <<>>
    /\ all_sessions = <<>>
    /\ \E w \in Conns : pc[w] = "loop"

\* C3 as stated: the sweep picks a registered agent at a tick if and only if
\* the tick is at or after the agent's last heartbeat plus the timeout
\* threshold, a tick at exactly that time included.
C3_EvictedAtOrAfterThreshold ==
    [][SweepTickStep =>
        \A i \in DOMAIN clients :
            Selected(clients[i].ws, clients[i].client_id)
                <=> (now >= client[clients[i].ws].last_heartbeat + heartbeat_timeout)
      ]_vars

\* C3, amended: the sweep picks a registered agent at a tick if and only if
\* the tick is later than the agent's last heartbeat plus the timeout
\* threshold: with the threshold 90s and the last heartbeat at t=0, at the
\* first tick after t=90s, and not at a tick at exactly t=90s or before.
C3_EvictedAfterThreshold ==
    [][SweepTickStep =>
        \A i \in DOMAIN clients :
            Selected(clients[i].ws, clients[i].client_id)
                <=> (now > client[clients[i].ws].last_heartbeat + heartbeat_timeout)
      ]_vars

\* An agent whose last heartbeat was at t=0 is being closed by the tick at
\* t=120s, the first one after t=90s.
C3_Witness ==
    /\ monitor.pc = "closing"
    /\ ws[monitor.closing] = "closing"
    /\ client[monitor.closing].last_heartbeat = 0
    /\ monitor.tick_at = heartbeat_timeout + heartbeat_interval
    /\ now = monitor.tick_at

\* C4: a dispatch that found the session returns the outcome of a
\* COMMAND_RESPONSE received with its request_id, or a timeout.
C4_DispatchAwaitsResolution ==
    \A i \in DOMAIN results :
        LET r == results[i].result
        IN  r.success =>
               /\ "output" \in DOMAIN r
               /\ \E j \in DOMAIN logged :
                     /\ logged[j].request_id = r.request_id
                     /\ logged[j].output = r.output

\* execute_command returns.
DispatchStep == Len(results') = Len(results) + 1

\* The result an execute_command call of this step returned, and its call.
Returned == results'[Len(results')]

RequestIdsSent ==
    UNION {{sent[w][k].request_id :
               k \in {n \in DOMAIN sent[w] : sent[w][n].type = "execute_command"}} :
           w \in Conns}

\* C6: execute_command on a session that a registered agent advertises sends
\* one EXECUTE_COMMAND on the websocket of the first such agent, with a
\* request_id no frame carried before and the call's session_name, command
\* and timeout, sends nothing on the other websockets, and returns success
\* with that request_id and status "sent"; when the send raises, it returns
\* a failure with the error and nothing is sent.
C6_ExecuteCommandSends ==
    [][DispatchStep =>
        LET call == Returned.call
            r == Returned.result
            owners == Owners(call.session_name)
        IN  owners # {} =>
              LET w == clients[CHOOSE i \in owners : \A j \in owners : i <= j].ws
              IN  IF ws[w] = "open"
                  THEN /\ r.success
                       /\ r.status = "sent"
                       /\ r.request_id \notin RequestIdsSent
                       /\ sent' = [sent EXCEPT ![w] = Append(@,
                              [type |-> "execute_command",
                               request_id |-> r.request_id,
                               session_name |-> call.session_name,
                               command |-> call.command,
                               timeout |-> call.timeout])]
                  ELSE /\ ~r.success
                       /\ r.error = "ConnectionClosed"
                       /\ sent' = sent
      ]_vars

\* Two dispatches were sent, on the websocket of the first of two agents
\* that advertise the session.
C6_Witness ==
    /\ Len(results) = 2
    /\ \A i \in DOMAIN results : results[i].result.success
    /\ \E w \in Conns : \E k \in DOMAIN sent[w] :
          /\ sent[w][k].type = "execute_command"
          /\ sent[w][k].request_id = results[2].result.request_id
          /\ Cardinality(Owners(sent[w][k].session_name)) = 2

\* C7: execute_command on a session name that no registered agent
\* advertises returns the "not found" failure, sends no frame, and leaves
\* the registry, the clients' sessions and the derived session list as they
\* were.
C7_SessionNotFound ==
    [][(DispatchStep /\ Owners(Returned.call.session_name) = {}) =>
            /\ Returned.result = [success |-> FALSE, error |-> "not found"]
            /\ sent' = sent
            /\ clients' = clients
            /\ client' = client
            /\ all_sessions' = all_sessions
      ]_vars

\* A dispatch on a session nobody advertises failed while an agent was
\* registered with another session.
C7_Witness ==
    /\ clients # <<>>
    /\ all_sessions # <<>>
    /\ \E i \in DOMAIN results :
          /\ ~results[i].result.success
          /\ results[i].result.error = "not found"
          /\ Owners(results[i].call.session_name) = {}

(***************************************************************************)
(* The completion detector's properties.                                   *)
(***************************************************************************)
\* A turn of the polling loop is being taken.
PollStep == det_pc = "wait" /\ trace' # trace

\* The lines of final past the line count of baseline.
LinesPast(baseline, final) == SubSeq(final, Len(baseline) + 1, Len(final))

\* The last line of content that is not blank ends, spaces aside, with a
\* prompt character.
PromptLike(content) ==
    \E i \in DOMAIN content :
        /\ ~IsBlankLine(content[i])
        /\ \A k \in DOMAIN content : k > i => IsBlankLine(content[k])
        /\ \E j \in DOMAIN content[i] :
              /\ content[i][j] \in {">", "$", ":"}
              /\ \A k \in DOMAIN content[i] : k > j => IsSpace(content[i][k])

\* The polls of the scenario [baseline, working W, same W, final].
ScenarioTrace == <<"working", "same", "idle">>

\* C8 as stated: the detector polls on through every captured snapshot that
\* is unchanged or working, keeping the working one as last_content, and
\* reports success at the first captured snapshot that differs from
\* last_content and is idle, with the full snapshot; and when the final
\* snapshot is longer than the baseline, the output is the lines of the final
\* snapshot past the baseline's line count.
C8_OutputIsLinesPastBaseline ==
    [][PollStep =>
        LET c == current_content'
        IN  /\ (c # EmptyContent /\ (c = last_content \/ HasIndicator(c)))
                  => (det_result' = NoResult /\ det_pc' = "wait" /\ last_content' = c)
            /\ (c # EmptyContent /\ c # last_content /\ ~HasIndicator(c))
                  => /\ det_result'.returned
                     /\ det_result'.success
                     /\ det_result'.full_screen = c
                     /\ Len(c) > Len(old_content)
                           => det_result'.output = LinesPast(old_content, c)
       ]_vars

\* C8, amended: the detector polls on through every captured snapshot that
\* is unchanged or working, keeping the working one as last_content; it
\* reports success at the first captured snapshot that differs from
\* last_content and is idle, and at no other poll, with the full snapshot and
\* the time elapsed; when the final snapshot is longer than the baseline the
\* output is the lines of the final snapshot past the baseline's line count
\* with the white space at both ends stripped; and in the scenario
\* [baseline, working W, same W, final] at least two poll intervals have
\* elapsed at the success.
C8_DetectorPolicy ==
    [][PollStep =>
        LET c == current_content'
        IN  /\ (c # EmptyContent /\ (c = last_content \/ HasIndicator(c)))
                  => (det_result' = NoResult /\ det_pc' = "wait" /\ last_content' = c)
            /\ (c # EmptyContent /\ c # last_content /\ ~HasIndicator(c))
                  => /\ det_result'.returned
                     /\ det_result'.success
                     /\ det_result'.full_screen = c
                     /\ det_result'.response_time = elapsed'
                     /\ Len(c) > Len(old_content)
                           => det_result'.output = Strip(LinesPast(old_content, c))
            /\ det_result'.returned
                  => (c # EmptyContent /\ c # last_content /\ ~HasIndicator(c))
            /\ trace' = ScenarioTrace => elapsed' >= 2 * check_interval
       ]_vars

\* The scenario [baseline, working W, same W, final] has ended in success on
\* a final snapshot longer than the baseline.
C8_Witness ==
    /\ det_result.returned
    /\ det_result.success
    /\ trace = ScenarioTrace
    /\ HasIndicator(last_content)
    /\ Len(det_result.full_screen) > Len(old_content)

C10_TimeoutCarriesElapsed ==
    (det_result.returned /\ ~det_result.success
        /\ det_result.error = "Response timeout")
        => det_result.response_time = elapsed

(***************************************************************************)
(* Delta extraction.                                                       *)
(***************************************************************************)
\* The lines the three cases of the delta extraction name.
DeltaLinesOf(baseline, final) ==
    IF Len(final) > Len(baseline)
    THEN SubSeq(final, Len(baseline) + 1, Len(final))
    ELSE IF Len(final) >= 10
    THEN SubSeq(final, Len(final) - 9, Len(final))
    ELSE final

\* _extract_new_content has returned.
Extracted == det_pc = "done" /\ det_result.returned /\ det_result.success

\* C11 as stated: the result of the delta extraction is the lines of the
\* final snapshot past the baseline's line count if the final snapshot has
\* more lines than the baseline, else its last 10 lines if it has at least
\* 10 lines, else the entire final snapshot.
C11_DeltaIsTheLines ==
    Extracted => det_result.output = DeltaLinesOf(old_content, current_content)

\* C11, amended: the result of the delta extraction is those lines with
\* the white space, blank lines included, removed from both ends.
C11_DeltaIsTheLinesStripped ==
    Extracted => det_result.output = Strip(DeltaLinesOf(old_content, current_content))

\* The last 10 lines of a final snapshot of 10 lines that has no more lines
\* than the baseline were returned, stripped of a blank last line.
C11_Witness ==
    /\ Extracted
    /\ Len(current_content) = 10
    /\ Len(old_content) = 10
    /\ Len(det_result.output) = 9
    /\ current_content[10] = <<" ">>

(***************************************************************************)
(* The order of one command execution.                                     *)
(***************************************************************************)
\* send_command_with_response runs up to its return or its first poll.
StartStep == det_pc = "idle" /\ det_pc' # "idle"

\* C12: the command is injected at most once and only after a non-empty
\* baseline was captured, and polls are made only after the injection; when
\* the baseline capture returns nothing, or the injection fails, the command
\* execution returns a failure with no injection done and no poll made.
C12_CaptureInjectPoll ==
    /\ [](/\ injected \in {0, 1}
          /\ injected = 1 => old_content # EmptyContent
          /\ trace # <<>> => injected = 1)
    /\ [][StartStep =>
            /\ old_content' = EmptyContent => injected' = 0
            /\ injected' = 0 =>
                  /\ det_pc' = "done"
                  /\ det_result'.returned
                  /\ ~det_result'.success
                  /\ trace' = <<>>
            /\ det_pc' = "wait" => injected' = 1]_vars
    /\ [][PollStep => (injected = 1 /\ injected' = 1)]_vars
    /\ [][(det_pc = "done" /\ injected = 0) => (trace' = <<>> /\ injected' = 0)]_vars

\* A command was injected after a non-empty baseline and polled twice.
C12_Witness ==
    /\ injected = 1
    /\ old_content # EmptyContent
    /\ Len(trace) = 2

(***************************************************************************)
(* The agent's properties.                                                 *)
(***************************************************************************)
\* The request_id and session_name of the frames of a type, in order.
RequestsOf(frames, type) ==
    LET of_type == SelectSeq(frames, LAMBDA f : f.type = type)
    IN  [i \in DOMAIN of_type |->
            <<of_type[i].request_id, of_type[i].session_name>>]

\* send_command_with_response returns or raises in _handle_execute_command;
\* the other way for an execution to end is its cancellation when connect
\* leaves the connection.
ExecutionEnds ==
    executing # NoCommand /\ executing' = NoCommand /\ agent_pc' = "active"

\* C13: while the agent's connection is open, the COMMAND_RESPONSE frames it
\* has sent echo, one for one and in order, the request_id and session_name
\* of the EXECUTE_COMMAND frames it has received, the one still being
\* executed excepted; the end of an execution on an open connection sends
\* one COMMAND_RESPONSE for it, with success=false when the execution timed
\* out, failed or raised, and leaves the connection open and the tasks
\* running; and a COMMAND_RESPONSE is sent by nothing else.
C13_OneResponsePerCommand ==
    /\ []((agent_ws = "open" /\ agent_pc = "active") =>
            LET asked == RequestsOf(conn_recv, "execute_command")
                answered == RequestsOf(conn_sent, "command_response")
            IN  IF executing = NoCommand THEN answered = asked
                ELSE answered = SubSeq(asked, 1, Len(asked) - 1))
    /\ [][(ExecutionEnds /\ agent_ws = "open") =>
            /\ Len(conn_sent') = Len(conn_sent) + 1
            /\ LET r == conn_sent'[Len(conn_sent')]
               IN  /\ r.type = "command_response"
                   /\ r.request_id = executing.request_id
                   /\ r.session_name = executing.session_name
                   /\ r.success <=> (r.error = None)
                   /\ r.error \in {None, "timeout", "capture_failed", "exception"}
            /\ agent_ws' = "open"
            /\ tasks' = tasks
            /\ tasks'["handle_messages"] = "running"]_vars
    /\ [][Len(RequestsOf(conn_sent', "command_response"))
              > Len(RequestsOf(conn_sent, "command_response")) => ExecutionEnds]_vars

\* The agent answered a command that raised with a failed response, and
\* its connection is open.
C13_Witness ==
    /\ agent_ws = "open"
    /\ agent_pc = "active"
    /\ \E i \in DOMAIN conn_sent :
          /\ conn_sent[i].type = "command_response"
          /\ ~conn_sent[i].success
          /\ conn_sent[i].error = "exception"

\* The agent has taken a REGISTER_ACK from this connection.
Acked == \E i \in DOMAIN conn_recv : conn_recv[i].type = "register_ack"

\* C15: the agent executes no EXECUTE_COMMAND and answers none on a
\* connection from which it has not taken the REGISTER_ACK.
C15_NothingBeforeAck ==
    /\ executing # NoCommand => Acked
    /\ SentOfType("command_response") # <<>> => Acked

(***************************************************************************)
(* Registration, authentication and session updates.                       *)
(***************************************************************************)
\* The REGISTER_ACK frames sent on websocket w.
AcksSent(w) == SelectSeq(sent[w], LAMBDA f : f.type = "register_ack")

\* The sessions of the ClientConnection of w are in the derived session
\* list ss, each tagged with the client's id.
Listed(w, ss) ==
    \A k \in DOMAIN client[w].sessions :
        \E n \in DOMAIN ss :
            /\ ss[n].name = client[w].sessions[k].name
            /\ ss[n].desc = client[w].sessions[k].desc
            /\ ss[n].client_id = client[w].client_id

\* C14: with no auth configured, a well-formed REGISTER as the first frame
\* of a connection puts the connection into the registry under the frame's
\* client_id with a session map that holds exactly the advertised sessions,
\* one per name; the acknowledgment is then one REGISTER_ACK with
\* success=true and the heartbeat interval, the only one the connection is
\* ever sent; and with the acknowledgment the sessions of the connection,
\* if it still holds its registry entry, are in the derived session list
\* under its client_id.
C14_RegisterCreatesEntry ==
    /\ [][\A w \in Conns : \A msg \in GoodRegisterMsgs :
            (auth_tokens = {} /\ RecvFirst(w, msg)) =>
                /\ ClientsGet(clients', msg.client_id) = w
                /\ client'[w].client_id = msg.client_id
                /\ \A k \in DOMAIN msg.sessions :
                      \E i \in DOMAIN client'[w].sessions :
                          client'[w].sessions[i] = msg.sessions[k]
                /\ \A i \in DOMAIN client'[w].sessions :
                      \E k \in DOMAIN msg.sessions :
                          client'[w].sessions[i] = msg.sessions[k]
                /\ \A i, j \in DOMAIN client'[w].sessions :
                      (client'[w].sessions[i].name = client'[w].sessions[j].name)
                          => i = j
                /\ pc'[w] = "send_ack"]_vars
    /\ [][\A w \in Conns : (pc[w] = "send_ack" /\ pc'[w] = "loop") =>
            /\ sent'[w] = Append(sent[w],
                    [type |-> "register_ack", success |-> TRUE,
                     heartbeat_interval |-> heartbeat_interval])
            /\ (ClientsGet(clients, client[w].client_id) = w)
                    => Listed(w, all_sessions')]_vars
    /\ [](\A w \in Conns :
            Len(AcksSent(w)) = IF pc[w] = "loop" THEN 1 ELSE
                               IF pc[w] = "done" THEN Len(AcksSent(w)) ELSE 0)
    /\ [](\A w \in Conns : Len(AcksSent(w)) <= 1)

\* With no auth configured a connection registered two sessions, was
\* acknowledged, and its sessions are listed.
C14_Witness ==
    /\ auth_tokens = {}
    /\ \E w \in Conns :
          /\ pc[w] = "loop"
          /\ Len(client[w].sessions) = 2
          /\ Len(AcksSent(w)) = 1
          /\ Listed(w, all_sessions)
          /\ Len(all_sessions) >= 2

\* The AUTH_RESULT frames sent on websocket w.
AuthResultsSent(w) == SelectSeq(sent[w], LAMBDA f : f.type = "auth_result")

\* What C16 says of an AUTH frame msg that the handler of w takes.
AuthAnswered(w, msg) ==
    /\ sent'[w] = Append(sent[w],
            [type |-> "auth_result", success |-> (msg.auth_token \in auth_tokens)])
    /\ (msg.auth_token \notin auth_tokens) =>
            /\ pc'[w] = "done"
            /\ ws'[w] = "closed"
            /\ ~InRegistry(clients', w)
            /\ clients' = clients

\* C16 as stated: on an AUTH frame the coordinator sends one AUTH_RESULT
\* whose success says whether the token is in the configured set, and after
\* a failed AUTH it closes the connection and has no registry entry for it.
C16_AuthAnsweredAlways ==
    [][\A w \in Conns : \A msg \in AuthMsgs :
          RecvFirst(w, msg) => AuthAnswered(w, msg)]_vars

\* C16, amended: so it is when the configured token set is not empty and the
\* AUTH frame is the first frame of the connection; no connection is sent
\* more than one AUTH_RESULT, and a connection that was sent a failure is
\* closed and never in the registry.
C16_AuthAnsweredWhenConfigured ==
    /\ [][\A w \in Conns : \A msg \in AuthMsgs :
            (auth_tokens # {} /\ RecvFirst(w, msg)) => AuthAnswered(w, msg)]_vars
    /\ [](\A w \in Conns :
            /\ Len(AuthResultsSent(w)) <= 1
            /\ (AuthResultsSent(w) # <<>> /\ ~AuthResultsSent(w)[1].success) =>
                  /\ pc[w] = "done"
                  /\ ws[w] = "closed"
                  /\ ~InRegistry(clients, w))

\* One connection failed its AUTH and is closed, and another passed its
\* AUTH and registered.
C16_Witness ==
    /\ auth_tokens # {}
    /\ \E w, v \in Conns :
          /\ AuthResultsSent(w) = <<[type |-> "auth_result", success |-> FALSE]>>
          /\ pc[w] = "done"
          /\ AuthResultsSent(v) = <<[type |-> "auth_result", success |-> TRUE]>>
          /\ InRegistry(clients, v)

\* _authenticate ends, with a reply or with the connection closed.
AuthEnds == agent_pc = "auth_recv" /\ agent_pc' # "auth_recv"

\* The reply _authenticate took is AUTH_RESULT with success=true.
AuthPassed ==
    /\ conn_recv' # conn_recv
    /\ conn_recv'[Len(conn_recv')] = [type |-> "auth_result", success |-> TRUE]

\* C17: on every connection an agent with a token sends AUTH first and
\* REGISTER only second, after it took AUTH_RESULT with success=true as the
\* first frame; an agent with no token sends REGISTER first and never AUTH.
\* When the reply to AUTH is a failure, another frame or the end of the
\* connection, the agent sends nothing more on the connection, closes it and,
\* unless disconnect was called, sleeps for the fixed delay before it
\* connects again.
C17_HandshakeOrder ==
    /\ []((auth_token # None /\ conn_sent # <<>>) =>
            /\ conn_sent[1] = [type |-> "auth", auth_token |-> auth_token]
            /\ \A i \in DOMAIN conn_sent :
                  conn_sent[i].type = "register" =>
                      /\ i = 2
                      /\ conn_recv # <<>>
                      /\ conn_recv[1] = [type |-> "auth_result", success |-> TRUE]
            /\ \A i \in DOMAIN conn_sent : conn_sent[i].type = "auth" => i = 1)
    /\ []((auth_token = None /\ conn_sent # <<>>) =>
            /\ conn_sent[1].type = "register"
            /\ \A i \in DOMAIN conn_sent :
                  /\ conn_sent[i].type # "auth"
                  /\ conn_sent[i].type = "register" => i = 1)
    /\ [][(AuthEnds /\ ~AuthPassed) =>
            /\ conn_sent' = conn_sent
            /\ agent_ws' = "closed"
            /\ tasks' = tasks
            /\ running => (agent_pc' = "sleeping" /\ retry_at' = now + reconnect_delay)
            /\ ~running => agent_pc' = "stopped"]_vars
    /\ [][(AuthEnds /\ AuthPassed) =>
            /\ conn_sent' = Append(conn_sent, [type |-> "register"])
            /\ agent_pc' = "active"]_vars
    /\ [][(agent_pc = "sleeping" /\ agent_pc' = "connecting") => now >= retry_at]_vars

\* An agent with a token was refused on its first connection, sent no
\* REGISTER there, and authenticated and registered on its second.
C17_Witness ==
    /\ auth_token # None
    /\ attempt = 2
    /\ now = reconnect_delay
    /\ agent_pc = "active"
    /\ Len(conn_sent) = 2
    /\ conn_sent[2].type = "register"

\* A task of the connection has ended and connect has not yet gone on.
TaskEnded ==
    agent_pc = "active" /\ \E t \in TaskNames : tasks[t] \in {"failed", "done"}

\* _check_sessions catches an exception in a turn of _monitor_sessions.
PollFails == poll_errors' > poll_errors /\ executing' = executing /\ conn_recv' = conn_recv

\* The frames the three tasks send.
DutyFrames == {"heartbeat", "session_update", "command_response"}

\* C18 as stated, for the session-change polling: when the polling fails,
\* its task ends as failed, which is what makes connect drop the connection
\* and cancel the other two tasks.
C18_PollFailureDrops ==
    [][PollFails => tasks'["monitor_sessions"] = "failed"]_vars

\* C18, amended: when one of the three tasks has ended, connect leaves the
\* connection: it cancels the tasks still running and closes the websocket;
\* a task runs only while its connection is active, and no frame is sent
\* after the drop before the next connection is made.  An exception in
\* session-change polling is caught and logged: it ends no task and drops
\* no connection.
C18_FirstCompletedDrops ==
    /\ TaskEnded ~> agent_pc # "active"
    /\ [][(agent_pc = "active" /\ agent_pc' # "active") =>
            /\ TaskEnded
            /\ \A t \in TaskNames : tasks'[t] # "running"
            /\ \A t \in TaskNames :
                  tasks[t] = "running" => tasks'[t] = "cancelled"
            /\ agent_ws' = "closed"
            /\ conn_sent' = conn_sent]_vars
    /\ []((\E t \in TaskNames : tasks[t] = "running") => agent_pc = "active")
    /\ [][(agent_pc \in {"sleeping", "stopped"}) => (conn_sent' = conn_sent)]_vars
    /\ [][(Len(conn_sent') > Len(conn_sent)
            /\ conn_sent'[Len(conn_sent')].type \in DutyFrames) =>
                (agent_pc = "active" /\ agent_pc' = "active")]_vars
    /\ [][PollFails =>
            (tasks' = tasks /\ agent_pc' = agent_pc /\ agent_ws' = agent_ws)]_vars

\* The heartbeat task failed on a send, connect cancelled the other two
\* tasks, closed the websocket and sleeps.
C18_Witness ==
    /\ agent_pc = "sleeping"
    /\ agent_ws = "closed"
    /\ tasks = [handle_messages |-> "cancelled", monitor_sessions |-> "cancelled",
                heartbeat_loop |-> "failed"]

\* connect leaves a connection or fails to make one.
DropStep ==
    agent_pc \in {"connecting", "auth_recv", "active"}
        /\ agent_pc' \notin {"connecting", "auth_recv", "active"}

\* C19: unless disconnect was called, a drop puts the agent to sleep until
\* the fixed delay after the drop has passed, the sleep is followed by a new
\* connection attempt, made no earlier than that, and the agent does not
\* stop.
C19_AlwaysRetries ==
    /\ [][DropStep => IF running
                      THEN agent_pc' = "sleeping" /\ retry_at' = now + reconnect_delay
                      ELSE agent_pc' = "stopped"]_vars
    /\ (agent_pc = "sleeping" /\ running) ~> (agent_pc = "connecting" \/ ~running)
    /\ [][(agent_pc = "sleeping" /\ agent_pc' # "sleeping") =>
            /\ now >= retry_at
            /\ agent_pc' = IF running THEN "connecting" ELSE "stopped"]_vars
    /\ [](running => agent_pc # "stopped")
    /\ [][(running' # running) => (agent_pc = "new" \/ ~running')]_vars

\* The agent failed to connect, was refused or dropped twice, and is about
\* to connect for the third time, two delays after its start.
C19_Witness ==
    /\ running
    /\ attempt = 2
    /\ agent_pc = "connecting"
    /\ now = 2 * reconnect_delay

\* The sessions of a session map, as a set.
SessionSet(d) == {d[i] : i \in DOMAIN d}

\* The entries the derived session list has for the registry cs and the
\* ClientConnections cl.
ListedSet(cs, cl) ==
    UNION {{[name |-> cl[cs[i].ws].sessions[k].name,
             desc |-> cl[cs[i].ws].sessions[k].desc,
             client_id |-> cl[cs[i].ws].client_id] :
                k \in DOMAIN cl[cs[i].ws].sessions} : i \in DOMAIN cs}

\* C20: a SESSION_UPDATE with action added or changed makes the session
\* map of the sending connection hold the given descriptor under its name
\* and leaves the other names as they were; removed deletes the name and is
\* a no-op when the name is absent.  The session maps of the other
\* connections, every last_heartbeat and the registry stay as they were, and
\* the derived session list is afterwards the sessions of the registry's
\* clients, each once and tagged with its client_id.
C20_SessionUpdate ==
    [][\A w \in Conns : \A msg \in SessionUpdateMsgs :
          (msg.action \in {"added", "changed", "removed"} /\ SessionUpdate(w, msg)) =>
             LET before == SessionSet(client[w].sessions)
                 after == SessionSet(client'[w].sessions)
                 others == {x \in before : x.name # msg.session.name}
             IN  /\ msg.action \in {"added", "changed"} =>
                        after = others \cup {msg.session}
                 /\ msg.action = "removed" => after = others
                 /\ (msg.action = "removed" /\ others = before) =>
                        client'[w] = client[w]
                 /\ Cardinality(after) = Len(client'[w].sessions)
                 /\ client'[w].last_heartbeat = client[w].last_heartbeat
                 /\ client'[w].client_id = client[w].client_id
                 /\ \A v \in Conns \ {w} : client'[v] = client[v]
                 /\ clients' = clients
                 /\ SessionSet(all_sessions') = ListedSet(clients', client')
                 /\ Len(all_sessions') =
                        Cardinality({<<i, k>> \in (DOMAIN clients) \X (1..Cardinality(SessionNames)) :
                                        k <= Len(client'[clients[i].ws].sessions)})
      ]_vars

\* A session update changed or removed a session of one of two registered
\* agents, and the derived list holds the sessions of both.
C20_Witness ==
    /\ n_updates = 1
    /\ Len(clients) = 2
    /\ Len(all_sessions) = 3
    /\ \E w \in Conns :
          /\ pc[w] = "loop"
          /\ client[w].sessions = <<SessionInfo("host_b", "d1")>>

(***************************************************************************)
(* The router's properties.                                                *)
(***************************************************************************)
\* The ways a known name may match a token.
ExactMatches(ss, token) == {i \in DOMAIN ss : ss[i] = token}

SuffixMatches(ss, token) == {i \in DOMAIN ss : EndsWith(ss[i], <<"_">> \o token)}

SubstringMatches(ss, token) ==
    {i \in DOMAIN ss : Contains(LowerStr(ss[i]), LowerStr(token))}

\* route_command has resolved a token against the known names.
Resolved == parsed.command_type # "none" /\ reply.kind \notin {"none", "status",
                "no_sessions", "no_session", "specify_session"}

\* C22: when the router resolves a token against the known names, the
\* result is the token itself if it is a known name; otherwise a known name
\* ending in "_<token>" if there is one; otherwise a known name containing
\* the token case-insensitively if there is one; otherwise no session,
\* whatever the order of the known names.
C22_ResolutionPrecedence ==
    Resolved =>
        LET token == parsed.session_id
        IN  IF ExactMatches(sessions, token) # {}
            THEN matched = token
            ELSE IF SuffixMatches(sessions, token) # {}
            THEN \E i \in SuffixMatches(sessions, token) : matched = sessions[i]
            ELSE IF SubstringMatches(sessions, token) # {}
            THEN \E i \in SubstringMatches(sessions, token) : matched = sessions[i]
            ELSE matched = NoneStr

\* A token was resolved to the name it equals although a name ending in
\* "_<token>" and a name containing the token come before it in the dict,
\* and a token to a name ending in "_<token>" although a name that only
\* contains the token comes first.
C22_Witness ==
    /\ Resolved
    /\ sessions = << <<"A">>, <<"b", "_", "a">>, <<"a">> >>
    /\ parsed.session_id = <<"a">>
    /\ matched = <<"a">>

\* The registry entries of the connected agents that advertise the session
\* name: registered, in their message loop, the websocket open.
ConnectedOwners(name) ==
    {i \in Owners(name) :
        pc[clients[i].ws] = "loop" /\ ws[clients[i].ws] = "open"}

\* The entries of the derived session list with this name and client.
EntriesOf(name, cid) ==
    {k \in DOMAIN all_sessions :
        all_sessions[k].name = name /\ all_sessions[k].client_id = cid}

\* C21: when two connected agents advertise the same session name the
\* derived session list has an entry with that name for each of them, and
\* an execute_command on that name sends one EXECUTE_COMMAND, on the
\* websocket of the first of them in registry order, and nothing on any
\* other websocket.
C21_SameNameTwoAgents ==
    /\ [](\A name \in SessionNames :
            \A i, j \in ConnectedOwners(name) :
                i # j =>
                    /\ clients[i].client_id # clients[j].client_id
                    /\ EntriesOf(name, clients[i].client_id) # {}
                    /\ EntriesOf(name, clients[j].client_id) # {}
                    /\ Cardinality({k \in DOMAIN all_sessions :
                                        all_sessions[k].name = name}) >= 2)
    /\ [][(DispatchStep
            /\ Cardinality(ConnectedOwners(Returned.call.session_name)) >= 2) =>
            LET name == Returned.call.session_name
                owners == Owners(name)
                first == clients[CHOOSE i \in owners : \A j \in owners : i <= j].ws
            IN  /\ \A w \in Conns \ {first} : sent'[w] = sent[w]
                /\ ws[first] = "open" =>
                      /\ Len(sent'[first]) = Len(sent[first]) + 1
                      /\ SubSeq(sent'[first], 1, Len(sent[first])) = sent[first]
                      /\ sent'[first][Len(sent'[first])].type = "execute_command"
                      /\ sent'[first][Len(sent'[first])].session_name = name
      ]_vars

\* Two connected agents advertise host_a, the session list has an entry
\* for each, and the one dispatch on host_a went to the first of them only.
C21_Witness ==
    /\ Cardinality(ConnectedOwners("host_a")) = 2
    /\ \A i \in ConnectedOwners("host_a") :
            EntriesOf("host_a", clients[i].client_id) # {}
    /\ Len(results) = 1
    /\ results[1].call.session_name = "host_a"
    /\ results[1].result.success
    /\ LET first == clients[CHOOSE i \in ConnectedOwners("host_a") :
                            \A j \in ConnectedOwners("host_a") : i <= j].ws
       IN  \A w \in Conns :
              (\E k \in DOMAIN sent[w] : sent[w][k].type = "execute_command")
                  <=> w = first

\* route_command has classified an input.
Classifies == parsed'.command_type # "none"

\* The four forms of an input, in the order they are checked; form 0 is no
\* input at all.
FormOf(input) ==
    LET u == StripLine(input)
    IN  IF LowerStr(u) \in status_phrases THEN 1
        ELSE IF FirstMatch(switch_patterns, LowerStr(u)) # NoSpan THEN 2
        ELSE IF StartsWith(u, <<"#">>) THEN 3
        ELSE 4

\* C23: the input is classified by the first form it has: (1) a status
\* phrase, whatever its case, is a status intent with no session; (2) a
\* switch phrase followed by a token is a session intent with that token
\* and an empty command; (3) a text that starts with the sigil is a session
\* intent whose token is the text up to the first space and whose command
\* is the rest; (4) anything else is for the active session, with the
\* input as the command.
C23_ClassificationOrder ==
    [][Classifies =>
        LET u == StripLine(user_input')
            span == FirstMatch(switch_patterns, LowerStr(u))
            parts == SplitFirstSpace(Tail(u))
        IN  CASE FormOf(user_input') = 1 ->
                    /\ parsed'.command_type = "status_query"
                    /\ parsed'.session_id = NoneStr
              [] FormOf(user_input') = 2 ->
                    /\ parsed'.command_type = "session_command"
                    /\ parsed'.session_id = Group(u, span)
                    /\ parsed'.command = <<>>
              [] FormOf(user_input') = 3 ->
                    /\ parsed'.command_type = "session_command"
                    /\ parsed'.session_id = parts[1]
                    /\ parsed'.command = (IF Len(parts) > 1 THEN parts[2] ELSE <<>>)
              [] OTHER ->
                    /\ parsed'.command_type = "current_session"
                    /\ parsed'.session_id = current_session
                    /\ parsed'.command = u]_vars

\* route_command found the session its input is for.
ResolvedOk == reply'.kind \in {"switched"} \cup RouterOutcomes

NothingSent == pane_call = NoCall

\* C25: when the token of a session intent matches no known name, neither
\* exactly nor as a suffix nor as a substring, the reply is that the session
\* was not found, it lists all the known names, and no command is sent to
\* any session.
C25_SessionNotFound ==
    (/\ parsed.command_type \in {"session_command", "current_session"}
     /\ ~Falsy(parsed.session_id)
     /\ ExactMatches(sessions, parsed.session_id) = {}
     /\ SuffixMatches(sessions, parsed.session_id) = {}
     /\ SubstringMatches(sessions, parsed.session_id) = {})
        => /\ reply = [kind |-> "not_found", session_id |-> parsed.session_id,
                       available |-> sessions]
           /\ NothingSent

\* A token was not found among two known names, and both were listed.
C25_Witness ==
    /\ reply.kind = "not_found"
    /\ parsed.command_type = "session_command"
    /\ parsed.command # <<>>
    /\ Len(sessions) = 2
    /\ reply.available = sessions
    /\ NothingSent

\* C26: an input that is neither a status phrase nor a switch phrase nor
\* addressed with the sigil is sent to the active session; when no session
\* is active nothing is sent and the caller is told to specify a session.
C26_SentToActiveSession ==
    [][(Classifies /\ FormOf(user_input') = 4 /\ StripLine(user_input') # <<>>) =>
          IF current_session = NoneStr
          THEN /\ pane_call' = NoCall
               /\ reply'.kind = "specify_session"
          ELSE pane_call' = [session_name |-> current_session,
                             command |-> StripLine(user_input')]]_vars

\* The request_ids of the EXECUTE_COMMAND frames sent on the connection, in
\* the order they were sent.
AskedOf(w) ==
    [i \in DOMAIN CommandsSent(w) |-> CommandsSent(w)[i].request_id]

\* The request_ids of the COMMAND_RESPONSE frames the agent of the
\* connection has sent, in the order it sent them: those the coordinator
\* has processed, then those it has not taken yet.
AnsweredOf(w) ==
    LET done == SelectSeq(logged, LAMBDA r : r.ws = w)
        pending == SelectSeq(upstream[w], LAMBDA f : f.type = "command_response")
    IN  [i \in DOMAIN done |-> done[i].request_id]
            \o [i \in DOMAIN pending |-> pending[i].request_id]

\* The agent of the connection is executing a command.
Executing(w) == busy[w].since # NotBusy.since

\* C27: on each connection the agent takes the EXECUTE_COMMAND frames one
\* at a time in the order they arrived and starts none while another is
\* executing, so that its COMMAND_RESPONSEs are sent in the order of the
\* requests; and the coordinator's handler takes the agent's frames from
\* the front of the connection, one at a time, each processed to its end
\* before the next.
C27_ArrivalOrder ==
    /\ [](\A w \in AllConns :
            LET asked == AskedOf(w)
                answered == AnsweredOf(w)
            IN  /\ busy[w].taken <= Len(asked)
                /\ Len(answered) <= busy[w].taken
                /\ Len(answered) >= busy[w].taken - 1
                /\ Executing(w) => Len(answered) = busy[w].taken - 1
                /\ answered = SubSeq(asked, 1, Len(answered)))
    /\ [][\A w \in AllConns :
            /\ busy'[w].taken # busy[w].taken =>
                  /\ ~Executing(w)
                  /\ busy'[w].taken = busy[w].taken + 1
            /\ upstream'[w] # upstream[w] =>
                  \/ /\ Len(upstream'[w]) = Len(upstream[w]) + 1
                     /\ SubSeq(upstream'[w], 1, Len(upstream[w])) = upstream[w]
                  \/ /\ upstream[w] # <<>>
                     /\ upstream'[w] = Tail(upstream[w])
            /\ (/\ pc[w] = "loop"
                /\ pc'[w] = "loop"
                /\ \/ client'[w] # client[w]
                   \/ AnsweredOf(w)' # AnsweredOf(w)
                   \/ Len(upstream'[w]) < Len(upstream[w])) =>
                  \/ /\ Len(upstream'[w]) = Len(upstream[w]) + 1
                     /\ SubSeq(upstream'[w], 1, Len(upstream[w])) = upstream[w]
                     /\ client'[w] = client[w]
                     /\ logged' = logged
                  \/ /\ upstream[w] # <<>>
                     /\ upstream'[w] = Tail(upstream[w])
                     /\ IF Head(upstream[w]).type = "heartbeat"
                        THEN /\ client'[w] =
                                  [client[w] EXCEPT !.last_heartbeat = now]
                             /\ logged' = logged
                        ELSE /\ client'[w] = client[w]
                             /\ Len(logged') = Len(logged) + 1
                             /\ logged'[Len(logged')].ws = w
                             /\ logged'[Len(logged')].request_id =
                                    Head(upstream[w]).request_id
      ]_vars

\* An agent executed two commands one after the other, the coordinator has
\* processed both responses in the order of the requests, and a heartbeat
\* of the agent between them.
C27_Witness ==
    \E w \in Conns :
        /\ Len(AskedOf(w)) = 2
        /\ busy[w].taken = 2
        /\ ~Executing(w)
        /\ upstream[w] = <<>>
        /\ Len(logged) = 2
        /\ \A i \in DOMAIN logged :
              logged[i].ws = w /\ logged[i].request_id = AskedOf(w)[i]
        /\ client[w].last_heartbeat > 0

\* A connection whose agent runs its heartbeat loop and whose handler is in
\* its message loop.
Beating(w) == next_beat[w] # NoBeat /\ ws[w] = "open" /\ pc[w] = "loop"

\* C29: an agent whose connection is open sends a HEARTBEAT every
\* heartbeat interval, whether it is executing a command or not: the
\* coordinator's last_heartbeat of it is never two intervals old, and
\* the liveness sweep never closes its connection, however long a command
\* runs.
C29_HeartbeatsWhileExecuting ==
    /\ [](\A w \in AllConns :
            Beating(w) =>
                /\ now - client[w].last_heartbeat < 2 * heartbeat_interval
                /\ next_beat[w] <= now + heartbeat_interval
                /\ ~IsDead(client[w], now))
    /\ [][\A w \in AllConns :
            (ws[w] = "open" /\ ws'[w] = "closing") => next_beat[w] = NoBeat]_vars

\* The frame has a type outside the closed set of message types, or lacks
\* one of type, timestamp and data.
IllFormed(text) ==
    \/ "type" \notin DOMAIN text
    \/ "timestamp" \notin DOMAIN text
    \/ "data" \notin DOMAIN text
    \/ text.type \notin {MessageType[t] : t \in DOMAIN MessageType}

\* _process_client_message has logged a frame it could not decode.
FrameRejected == n_rejected' = n_rejected + 1

\* C28: from_json rejects every frame whose type is not a message type or
\* that lacks type, timestamp or data, and makes no message of it; when
\* the coordinator's handler reads such a frame from a registered agent,
\* the registry, the clients with their last_heartbeat and sessions, the
\* derived session list and the frames sent are as before, and the
\* connection is open and its handler in its message loop as before.
C28_MalformedDropped ==
    /\ [](\A text \in ForeignFrames :
            IllFormed(text) =>
                /\ from_json(text) = DecodeError
                /\ "type" \notin DOMAIN from_json(text))
    /\ [][FrameRejected =>
            /\ clients' = clients
            /\ client' = client
            /\ all_sessions' = all_sessions
            /\ websocket_to_client' = websocket_to_client
            /\ sent' = sent
            /\ ws' = ws
            /\ pc' = pc
            /\ \E w \in Conns :
                  /\ pc[w] = "loop"
                  /\ pc'[w] = "loop"
                  /\ ws'[w] = "open"]_vars

\* A frame of a registered agent was dropped; the agent is still
\* registered with its sessions listed, its connection is open, and the
\* handler has processed a session update of it.
C28_Witness ==
    /\ n_rejected = 1
    /\ n_updates >= 1
    /\ \E w \in Conns :
          /\ InRegistry(clients, w)
          /\ pc[w] = "loop"
          /\ ws[w] = "open"
          /\ client[w].sessions # <<>>
          /\ all_sessions # <<>>

\* json.dumps writes the data as it is: the keys are strings and no value
\* is a tuple.
JsonRepresentable(d) ==
    \A i \in DOMAIN d : d[i].key.t = "str" /\ d[i].value.t # "tuple"

\* C30: a message of any type whose data json can represent, written by
\* to_json and read by from_json, is the message again: the same type, the
\* same timestamp and the same data.
C30_RoundTrip ==
    (/\ message # Absent
     /\ decoded # Absent
     /\ JsonRepresentable(message.data))
        => /\ decoded # DecodeError
           /\ decoded.type = message.type
           /\ decoded.timestamp = message.timestamp
           /\ decoded.data = message.data
           /\ decoded = from_json(to_json(message))

\* A message with a list and a string in its data came back as it was.
C30_Witness ==
    /\ message # Absent
    /\ decoded = message
    /\ message.timestamp = 17
    /\ Len(message.data) = 2
    /\ \E i \in DOMAIN message.data : message.data[i].value.t = "list"
    /\ \E i \in DOMAIN message.data : message.data[i].value.t = "str"

(***************************************************************************)
(* The result of a dispatch on an unknown session.                         *)
(***************************************************************************)
\* The session names of the derived session list.
KnownNames == {all_sessions[i].name : i \in DOMAIN all_sessions}

\* C31: the result of execute_command on a session name that no registered
\* agent advertises carries the session names the coordinator knows at that
\* moment, none when the registry is empty.
C31_NotFoundCarriesKnownNames ==
    [][(DispatchStep /\ Owners(Returned.call.session_name) = {}) =>
            /\ ~Returned.result.success
            /\ \E field \in DOMAIN Returned.result \ {"success", "error"} :
                  Returned.result[field] = KnownNames
      ]_vars

(***************************************************************************)
(* The detector's deadline.                                                *)
(***************************************************************************)
\* C32: no snapshot is captured and no success reported at an elapsed time
\* greater than the timeout, and with a timeout of zero or less no poll is
\* made.
C32_PollsOnlyUpToTimeout ==
    /\ [][PollStep => elapsed' <= det_timeout]_vars
    /\ []((det_result.returned /\ det_result.success)
              => det_result.response_time <= det_timeout)
    /\ [](det_timeout <= 0 => trace = <<>>)

(***************************************************************************)
(* The derived session list and the registry.                              *)
(***************************************************************************)
\* C33: in every state another task can observe, the derived session list
\* is the flattening of the registry: one entry for each session of each
\* registered client, tagged with that client's id, and no entry of a
\* client the registry does not hold; a client in the registry never has
\* its sessions missing from the list.
C33_ListIsFlattening ==
    /\ \A i \in DOMAIN clients :
          \A k \in DOMAIN client[clients[i].ws].sessions :
              Cardinality(EntriesOf(client[clients[i].ws].sessions[k].name,
                                    clients[i].client_id)) = 1
    /\ \A n \in DOMAIN all_sessions :
          \E i \in DOMAIN clients :
              /\ clients[i].client_id = all_sessions[n].client_id
              /\ \E k \in DOMAIN client[clients[i].ws].sessions :
                    /\ client[clients[i].ws].sessions[k].name = all_sessions[n].name
                    /\ client[clients[i].ws].sessions[k].desc = all_sessions[n].desc

(***************************************************************************)
(* The agent's session cache.                                              *)
(***************************************************************************)
\* The duty's _check_sessions is suspended in a send.
Checking(duty) == checks[duty].check.phase # "idle"

\* The duty's _check_sessions runs in this step.
CheckRuns(duty) == checks'[duty] # checks[duty]

\* C34: the session cache is written only by registration and by the check
\* of the session-change poll duty, never by the receive-and-dispatch duty,
\* and no two checks are in progress at once (so that no check that read
\* the sessions earlier writes the cache after one that read them later).
C34_CacheWrittenByPollOnly ==
    /\ [][sessions_cache' # sessions_cache =>
            \/ CheckRuns("monitor_sessions")
            \/ next_beat[CacheConn] = NoBeat /\ next_beat'[CacheConn] # NoBeat]_vars
    /\ [](~(Checking("monitor_sessions") /\ Checking("handle_messages")))

(***************************************************************************)
(* Registration when auth tokens are configured.                           *)
(***************************************************************************)
\* C35: when auth tokens are configured, every connection in the registry
\* was answered with AUTH_RESULT success before it registered, so that a
\* connection whose first frame is REGISTER gets no registry entry and its
\* sessions no place in the session list.
C35_RegisteredOnlyAfterAuth ==
    auth_tokens # {} =>
        /\ \A i \in DOMAIN clients :
              \E k \in DOMAIN sent[clients[i].ws] :
                  sent[clients[i].ws][k] = AuthResult(TRUE)
        /\ \A n \in DOMAIN all_sessions :
              \E w \in Conns :
                  /\ client[w].client_id = all_sessions[n].client_id
                  /\ \E k \in DOMAIN sent[w] : sent[w][k] = AuthResult(TRUE)

(***************************************************************************)
(* Connection attempts that do not register.                               *)
(***************************************************************************)
\* The handler of w ends without having registered its connection.
AttemptFails(w) == pc[w] \in {"recv_first", "recv_reg"} /\ pc'[w] = "done"

\* C36: a connection attempt that ends without a completed registration (no
\* frame in time, a first frame that is no REGISTER, a failed AUTH, a
\* REGISTER that cannot be parsed) leaves the registry and the derived
\* session list as they were, also when the REGISTER names the client_id of
\* another open connection.
C36_FailedAttemptLeavesRegistry ==
    [][\A w \in Conns : AttemptFails(w) =>
            /\ clients' = clients
            /\ all_sessions' = all_sessions]_vars

(***************************************************************************)
(* What the liveness sweep closes.                                         *)
(***************************************************************************)
\* C37: the liveness sweep closes a connection only when the last heartbeat
\* of that connection is older than the timeout at the moment of the close;
\* a connection that registered, also under the client_id of a dead one,
\* while the sweep was closing connections is not closed by that sweep.
C37_SweepClosesOnlyDead ==
    [][\A w \in AllConns :
          (ws[w] = "open" /\ ws'[w] = "closing") => IsDead(client[w], now)]_vars

(***************************************************************************)
(* The registry entry of an agent and the agent's sessions.                *)
(***************************************************************************)
\* The poll duty has completed a check that found the sessions tmux has
\* now, no CONTROL frame ever asked for a check, and the coordinator has
\* processed every frame the agent sent on its open connection.
PollSettled(w) ==
    /\ checks["monitor_sessions"].started >= 1
    /\ ~Checking("monitor_sessions")
    /\ checks["handle_messages"].started = 0
    /\ sessions_cache = tmux.sessions
    /\ pc[w] = "loop"
    /\ ws[w] = "open"
    /\ upstream[w] = <<>>

\* C38: once the sessions of an agent have stopped changing and a session
\* poll has completed on the open connection, the registry entry of the
\* agent holds the agent's current sessions: the same names, each with the
\* same descriptor.
C38_RegistryConverges ==
    PollSettled(CacheConn) =>
        SessionSet(client[CacheConn].sessions) = SessionSet(tmux.sessions)

(***************************************************************************)
(* The router's active session.                                            *)
(***************************************************************************)
\* C39: after any update_sessions, switch, command or status query the
\* active session of the router is None or a name of its session map, and
\* an un-addressed command that is sent goes to the active session, never
\* to another session that fuzzy matching finds for its name.
C39_ActiveSessionIsKnown ==
    /\ [](\/ current_session = NoneStr
          \/ \E i \in DOMAIN sessions : sessions[i] = current_session)
    /\ [][(Classifies /\ FormOf(user_input') = 4 /\ pane_call' # NoCall) =>
            pane_call'.session_name = current_session]_vars

(***************************************************************************)
(* The agent after disconnect.                                             *)
(***************************************************************************)
\* disconnect() has been called.
Disconnected == agent_pc # "new" /\ ~running

\* The agent sends a REGISTER in this step.
RegisterSent ==
    /\ attempt' # attempt \/ conn_sent' # conn_sent
    /\ conn_sent' # <<>>
    /\ conn_sent'[Len(conn_sent')] = RegisterFrame

\* C40: once disconnect() has been called, in whichever phase of connect,
\* the agent sends no REGISTER any more and begins no connection attempt,
\* and a connect loop that has stopped stays stopped.
C40_DisconnectStops ==
    /\ [][Disconnected => ~RegisterSent]_vars
    /\ [][(Disconnected /\ agent_pc # "connecting") => agent_pc' # "connecting"]_vars
    /\ [][(Disconnected /\ agent_pc = "stopped") => agent_pc' = "stopped"]_vars
====
